---- MODULE Spec2Model ----
(***************************************************************************)
(* Knowledge base: ingestion into the chunk store (processor.py,           *)
(* database.py), the extractors' failure paths and the text segmenter      *)
(* (processors/), the retrieval / context assembly / generation pipeline   *)
(* (query_engine.py) and the context view of the UI (app.py).              *)
(*                                                                         *)
(* A Python str is a sequence of one-character strings.  The fixed         *)
(* literals of message templates ("Document: ", "API error: ", ...) are    *)
(* single elements of such a sequence; no stored content contains them.    *)
(***************************************************************************)
EXTENDS Integers, Sequences, FiniteSets, TLC

(***************************************************************************)
(* Python str helpers                                                      *)
(***************************************************************************)

\* str.lower() on one character (ASCII letters)
LowerChar(c) ==
    CASE c = "A" -> "a" [] c = "B" -> "b" [] c = "C" -> "c" [] c = "D" -> "d"
      [] c = "E" -> "e" [] c = "F" -> "f" [] c = "G" -> "g" [] c = "H" -> "h"
      [] c = "I" -> "i" [] c = "J" -> "j" [] c = "K" -> "k" [] c = "L" -> "l"
      [] c = "M" -> "m" [] c = "N" -> "n" [] c = "O" -> "o" [] c = "P" -> "p"
      [] c = "Q" -> "q" [] c = "R" -> "r" [] c = "S" -> "s" [] c = "T" -> "t"
      [] c = "U" -> "u" [] c = "V" -> "v" [] c = "W" -> "w" [] c = "X" -> "x"
      [] c = "Y" -> "y" [] c = "Z" -> "z" [] OTHER -> c

\* str.lower()
Lower(s) == [i \in 1..Len(s) |-> LowerChar(s[i])]

\* the characters str.split() and str.strip() treat as whitespace
IsSpace(c) == c \in {" ", "\t", "\n", "\r", "\f"}

\* s[i:j] with 0-based Python offsets, 0 <= i, j
Slice(s, i, j) ==
    LET jj == IF j > Len(s) THEN Len(s) ELSE j
    IN  IF i >= jj THEN << >> ELSE SubSeq(s, i + 1, jj)

\* Python's  w in s  for two strings
Contains(s, w) ==
    \E i \in 0..(Len(s) - Len(w)) : Slice(s, i, i + Len(w)) = w

\* str.split() with no argument: the maximal runs of non-whitespace, in order
RECURSIVE SplitFrom(_, _, _)
SplitFrom(s, i, cur) ==
    IF i > Len(s)
    THEN (IF cur = << >> THEN << >> ELSE << cur >>)
    ELSE IF IsSpace(s[i])
         THEN (IF cur = << >> THEN << >> ELSE << cur >>) \o SplitFrom(s, i + 1, << >>)
         ELSE SplitFrom(s, i + 1, Append(cur, s[i]))

Split(s) == SplitFrom(s, 1, << >>)

\* set(list)
ToSet(l) == {l[i] : i \in 1..Len(l)}

(***************************************************************************)
(* json.loads: decoded values are tagged records                           *)
(*   [t |-> "null"], [t |-> "bool", v], [t |-> "int", v (digits, sign)],   *)
(*   [t |-> "const", v] (NaN, Infinity, -Infinity), [t |-> "str", v],      *)
(*   [t |-> "list", v (sequence of values)],                               *)
(*   [t |-> "dict", v (sequence of <<key, value>> pairs, in text order)]   *)
(* A scan result is [ok, val, next] with next the 1-based index after the  *)
(* value.  Number literals are integer literals (no fraction, no           *)
(* exponent); string escapes are the two-character ones.                   *)
(***************************************************************************)

IsDigit(c) == c \in {"0", "1", "2", "3", "4", "5", "6", "7", "8", "9"}

\* json whitespace
IsJsonWs(c) == c \in {" ", "\t", "\n", "\r"}

RECURSIVE SkipWs(_, _)
SkipWs(s, i) == IF i <= Len(s) /\ IsJsonWs(s[i]) THEN SkipWs(s, i + 1) ELSE i

JFail == [ok |-> FALSE, val |-> [t |-> "null"], next |-> 0]
JOk(v, n) == [ok |-> TRUE, val |-> v, next |-> n]

\* does the literal lit start at index i of s
StartsAt(s, i, lit) ==
    /\ i + Len(lit) - 1 <= Len(s)
    /\ SubSeq(s, i, i + Len(lit) - 1) = lit

RECURSIVE DigitsEnd(_, _)
DigitsEnd(s, i) == IF i <= Len(s) /\ IsDigit(s[i]) THEN DigitsEnd(s, i + 1) ELSE i

\* the literal s[i .. e-1] as an int value
NumberTo(s, i, e) == JOk([t |-> "int", v |-> SubSeq(s, i, e - 1)], e)

\* the digits of a number literal starting at i, its first digit expected at d
NumberFrom(s, i, d) ==
    IF d > Len(s) \/ ~IsDigit(s[d]) THEN JFail
    ELSE NumberTo(s, i, IF s[d] = "0" THEN d + 1 ELSE DigitsEnd(s, d))

\* NUMBER_RE  (-?(?:0|[1-9]\d*)) : integer part only
ScanNumber(s, i) == NumberFrom(s, i, IF i <= Len(s) /\ s[i] = "-" THEN i + 1 ELSE i)

\* the character a two-character escape \x stands for ("" when x is invalid)
Unescape(c) ==
    CASE c = "\"" -> "\"" [] c = "\\" -> "\\" [] c = "/" -> "/"
      [] c = "n" -> "\n" [] c = "t" -> "\t" [] c = "r" -> "\r"
      [] c = "f" -> "\f" [] OTHER -> ""

\* py_scanstring (strict): i is the index after the opening quote
RECURSIVE ScanString(_, _, _)
ScanString(s, i, acc) ==
    IF i > Len(s) THEN JFail
    ELSE IF s[i] = "\"" THEN JOk([t |-> "str", v |-> acc], i + 1)
    ELSE IF s[i] = "\\"
         THEN (IF i + 1 > Len(s) \/ Unescape(s[i + 1]) = "" THEN JFail
               ELSE ScanString(s, i + 2, Append(acc, Unescape(s[i + 1]))))
    ELSE IF s[i] \in {"\n", "\t", "\r", "\f"} THEN JFail
    ELSE ScanString(s, i + 1, Append(acc, s[i]))

RECURSIVE ScanOnce(_, _)
RECURSIVE ScanArray(_, _, _)
RECURSIVE ScanObject(_, _, _)

\* JSONArray after a value: j is at "]" or at the "," before the next value
ArraySep(s, j, a) ==
    IF j > Len(s) THEN JFail
    ELSE IF s[j] = "]" THEN JOk([t |-> "list", v |-> a], j + 1)
    ELSE IF s[j] = "," THEN ScanArray(s, SkipWs(s, j + 1), a)
    ELSE JFail

\* JSONArray with the scan result r of the next value
ArrayValue(s, r, acc) ==
    IF ~r.ok THEN JFail ELSE ArraySep(s, SkipWs(s, r.next), Append(acc, r.val))

\* JSONArray after "[": i is at the next value
ScanArray(s, i, acc) == ArrayValue(s, ScanOnce(s, i), acc)

\* JSONObject after a value: j is at "}" or at the "," before the next key
ObjectSep(s, j, a) ==
    IF j > Len(s) THEN JFail
    ELSE IF s[j] = "}" THEN JOk([t |-> "dict", v |-> a], j + 1)
    ELSE IF s[j] = "," THEN ScanObject(s, SkipWs(s, j + 1), a)
    ELSE JFail

\* JSONObject with the key k and the scan result r of its value
ObjectValue(s, k, r, acc) ==
    IF ~r.ok THEN JFail
    ELSE ObjectSep(s, SkipWs(s, r.next), Append(acc, << k.val.v, r.val >>))

\* JSONObject after the key k: c is at the ":"
ObjectColon(s, k, c, acc) ==
    IF c > Len(s) \/ s[c] # ":" THEN JFail
    ELSE ObjectValue(s, k, ScanOnce(s, SkipWs(s, c + 1)), acc)

\* JSONObject with the scan result k of the next key
ObjectKey(s, k, acc) ==
    IF ~k.ok THEN JFail ELSE ObjectColon(s, k, SkipWs(s, k.next), acc)

\* JSONObject after "{": i is at the opening quote of the next key
ScanObject(s, i, acc) ==
    IF i > Len(s) \/ s[i] # "\"" THEN JFail
    ELSE ObjectKey(s, ScanString(s, i + 1, << >>), acc)

\* after "{" and whitespace: the empty object, or the first key at j
ObjectAt(s, j) ==
    IF j <= Len(s) /\ s[j] = "}" THEN JOk([t |-> "dict", v |-> << >>], j + 1)
    ELSE ScanObject(s, j, << >>)

\* after "[" and whitespace: the empty array, or the first value at j
ArrayAt(s, j) ==
    IF j <= Len(s) /\ s[j] = "]" THEN JOk([t |-> "list", v |-> << >>], j + 1)
    ELSE ScanArray(s, j, << >>)

\* the end of _scan_once: the number match num, else NaN and the infinities
NumberOrConstant(s, i, num) ==
    IF num.ok THEN num
    ELSE IF StartsAt(s, i, <<"N", "a", "N">>)
         THEN JOk([t |-> "const", v |-> <<"n", "a", "n">>], i + 3)
    ELSE IF StartsAt(s, i, <<"I", "n", "f", "i", "n", "i", "t", "y">>)
         THEN JOk([t |-> "const", v |-> <<"i", "n", "f">>], i + 8)
    ELSE IF StartsAt(s, i, <<"-", "I", "n", "f", "i", "n", "i", "t", "y">>)
         THEN JOk([t |-> "const", v |-> <<"-", "i", "n", "f">>], i + 9)
    ELSE JFail

\* scanner.py_make_scanner._scan_once
ScanOnce(s, i) ==
    IF i > Len(s) THEN JFail
    ELSE IF s[i] = "\"" THEN ScanString(s, i + 1, << >>)
    ELSE IF s[i] = "{" THEN ObjectAt(s, SkipWs(s, i + 1))
    ELSE IF s[i] = "[" THEN ArrayAt(s, SkipWs(s, i + 1))
    ELSE IF StartsAt(s, i, <<"n", "u", "l", "l">>) THEN JOk([t |-> "null"], i + 4)
    ELSE IF StartsAt(s, i, <<"t", "r", "u", "e">>)
         THEN JOk([t |-> "bool", v |-> TRUE], i + 4)
    ELSE IF StartsAt(s, i, <<"f", "a", "l", "s", "e">>)
         THEN JOk([t |-> "bool", v |-> FALSE], i + 5)
    ELSE NumberOrConstant(s, i, ScanNumber(s, i))

\* the end of json.loads: only whitespace may follow the value
LoadsEnd(s, r) == IF r.ok /\ SkipWs(s, r.next) = Len(s) + 1 THEN r ELSE JFail

\* json.loads(s): [ok |-> FALSE] stands for JSONDecodeError
JsonLoads(s) == LoadsEnd(s, ScanOnce(s, SkipWs(s, 1)))

(***************************************************************************)
(* Python str() / repr() / truth value of a decoded value                  *)
(***************************************************************************)

\* concatenation of a sequence of strings with a separator: sep.join(parts)
RECURSIVE Join(_, _)
Join(parts, sep) ==
    IF parts = << >> THEN << >>
    ELSE IF Len(parts) = 1 THEN parts[1]
    ELSE parts[1] \o sep \o Join(Tail(parts), sep)

\* repr() of a str: single quotes unless it holds ' and no "
RECURSIVE EscapeRepr(_, _)
EscapeRepr(s, q) ==
    IF s = << >> THEN << >>
    ELSE LET c == Head(s)
             e == IF c = "\\" THEN <<"\\", "\\">>
                  ELSE IF c = q THEN <<"\\", q>>
                  ELSE IF c = "\n" THEN <<"\\", "n">>
                  ELSE IF c = "\t" THEN <<"\\", "t">>
                  ELSE IF c = "\r" THEN <<"\\", "r">>
                  ELSE IF c = "\f" THEN <<"\\", "x", "0", "c">>
                  ELSE << c >>
         IN  e \o EscapeRepr(Tail(s), q)

ReprStr(s) ==
    LET q == IF (\E i \in 1..Len(s) : s[i] = "'") /\ ~(\E i \in 1..Len(s) : s[i] = "\"")
             THEN "\"" ELSE "'"
    IN  << q >> \o EscapeRepr(s, q) \o << q >>

\* int(literal) printed back: "-0" is 0
IntStr(d) == IF d = <<"-", "0">> THEN <<"0">> ELSE d

\* a dict built from pairs in text order: a repeated key keeps its first
\* position and takes its last value
RECURSIVE DictLast(_, _, _)
DictLast(pairs, k, i) ==
    IF i = 0 THEN 0
    ELSE IF pairs[i][1] = k THEN i ELSE DictLast(pairs, k, i - 1)

DictHas(pairs, k) == DictLast(pairs, k, Len(pairs)) # 0

DictItem(pairs, k) == pairs[DictLast(pairs, k, Len(pairs))][2]

RECURSIVE DictKeys(_, _)
DictKeys(pairs, i) ==
    IF i > Len(pairs) THEN << >>
    ELSE IF \E j \in 1..(i - 1) : pairs[j][1] = pairs[i][1]
         THEN DictKeys(pairs, i + 1)
         ELSE << pairs[i][1] >> \o DictKeys(pairs, i + 1)

RECURSIVE PyRepr(_)
RECURSIVE ReprAll(_)
RECURSIVE ReprItems(_, _)

ReprAll(vals) ==
    IF vals = << >> THEN << >> ELSE << PyRepr(Head(vals)) >> \o ReprAll(Tail(vals))

ReprItems(pairs, keys) ==
    IF keys = << >> THEN << >>
    ELSE << ReprStr(Head(keys)) \o <<":", " ">> \o PyRepr(DictItem(pairs, Head(keys))) >>
         \o ReprItems(pairs, Tail(keys))

PyRepr(val) ==
    CASE val.t = "null"  -> <<"N", "o", "n", "e">>
      [] val.t = "bool"  -> (IF val.v THEN <<"T", "r", "u", "e">>
                             ELSE <<"F", "a", "l", "s", "e">>)
      [] val.t = "int"   -> IntStr(val.v)
      [] val.t = "const" -> val.v
      [] val.t = "str"   -> ReprStr(val.v)
      [] val.t = "list"  -> <<"[">> \o Join(ReprAll(val.v), <<",", " ">>) \o <<"]">>
      [] val.t = "dict"  -> <<"{">> \o Join(ReprItems(val.v, DictKeys(val.v, 1)), <<",", " ">>)
                            \o <<"}">>

\* str(value)
PyStr(val) == IF val.t = "str" THEN val.v ELSE PyRepr(val)

\* bool(value), i.e. the outcome of  not value
Truthy(val) ==
    CASE val.t = "null"  -> FALSE
      [] val.t = "bool"  -> val.v
      [] val.t = "int"   -> IntStr(val.v) # <<"0">>
      [] val.t = "const" -> TRUE
      [] OTHER           -> val.v # << >>

(***************************************************************************)
(* QueryEngine._get_relevant_chunks                                        *)
(***************************************************************************)

\* the json.loads attempt shared by the consumers of a stored content
\* (query_engine.py 71-75, 102-106): the decoded value, or the str itself
DecodedOr(r, content) == IF r.ok THEN r.val ELSE [t |-> "str", v |-> content]

DecodeContent(content) == DecodedOr(JsonLoads(content), content)

\* dict.get('ocr_text', '')
GetOcrText(pairs) ==
    IF DictHas(pairs, <<"o", "c", "r", "_", "t", "e", "x", "t">>)
    THEN DictItem(pairs, <<"o", "c", "r", "_", "t", "e", "x", "t">>)
    ELSE [t |-> "str", v |-> << >>]

\* str(e) of the AttributeError raised by .lower() on a value that is not a str
NoLower(o) ==
    CASE o.t = "null"  -> <<"'NoneType' object has no attribute 'lower'">>
      [] o.t = "bool"  -> <<"'bool' object has no attribute 'lower'">>
      [] o.t = "int"   -> <<"'int' object has no attribute 'lower'">>
      [] o.t = "const" -> <<"'float' object has no attribute 'lower'">>
      [] o.t = "list"  -> <<"'list' object has no attribute 'lower'">>
      [] o.t = "dict"  -> <<"'dict' object has no attribute 'lower'">>

\* line 80: o.lower() for the ocr_text value o.  ok = FALSE stands for the
\* AttributeError, text is then its message.
LowerOcr(o) ==
    IF o.t = "str" THEN [ok |-> TRUE, text |-> Lower(o.v)]
    ELSE [ok |-> FALSE, text |-> NoLower(o)]

\* lines 79-82 for the decoded content c
LowerText(c) ==
    IF c.t = "dict" THEN LowerOcr(GetOcrText(c.v))
    ELSE [ok |-> TRUE, text |-> Lower(PyStr(c))]

\* content_text of the ranker (lines 68-82)
RankerText(content) == LowerText(DecodeContent(content))

\* query_words = set(query.lower().split())
QueryWords(query) == ToSet(Split(Lower(query)))

\* sum(1 for word in query_words if word in content_text), one word at a time
RECURSIVE SumMatches(_, _)
SumMatches(words, text) ==
    IF words = {} THEN 0
    ELSE LET w == CHOOSE x \in words : TRUE
         IN  (IF Contains(text, w) THEN 1 ELSE 0) + SumMatches(words \ {w}, text)

\* variant: the words are counted from the list, a repeated word every time
RECURSIVE SumMatchesList(_, _)
SumMatchesList(words, text) ==
    IF words = << >> THEN 0
    ELSE (IF Contains(text, Head(words)) THEN 1 ELSE 0) + SumMatchesList(Tail(words), text)

ScoreCountingRepeats(query, text) == SumMatchesList(Split(Lower(query)), text)

Score(query, text) == SumMatches(QueryWords(query), text)

\* the loop of lines 66-87: the (score, chunk) pairs with score > 0 in the
\* order of all_chunks; ok = FALSE when a chunk's text raised, val is then
\* the message of the exception
RECURSIVE ScoreChunks(_, _)

\* lines 86-87: if score > 0, the pair goes in front of those of the later chunks
KeepPositive(chunk, score, rest) ==
    IF ~rest.ok THEN rest
    ELSE IF score > 0
         THEN [ok |-> TRUE, val |-> << [score |-> score, chunk |-> chunk] >> \o rest.val]
         ELSE rest

\* one iteration: the chunk, its content_text t, and the chunks after it
ScoreChunk(chunk, t, others, query) ==
    IF ~t.ok THEN [ok |-> FALSE, val |-> t.text]
    ELSE KeepPositive(chunk, Score(query, t.text), ScoreChunks(others, query))

ScoreChunks(all_chunks, query) ==
    IF all_chunks = << >> THEN [ok |-> TRUE, val |-> << >>]
    ELSE ScoreChunk(Head(all_chunks), RankerText(Head(all_chunks).content),
                    Tail(all_chunks), query)

\* list.sort(key=lambda x: x[0], reverse=True): stable, by score descending.
\* An element goes after every element already placed whose score is >= its own.
\* variant: an element goes before the elements of equal score already placed
InsertDescUnstable(sorted, e) ==
    LET k == Cardinality({i \in 1..Len(sorted) : sorted[i].score > e.score})
    IN  SubSeq(sorted, 1, k) \o << e >> \o SubSeq(sorted, k + 1, Len(sorted))

InsertDesc(sorted, e) ==
    LET k == Cardinality({i \in 1..Len(sorted) : sorted[i].score >= e.score})
    IN  SubSeq(sorted, 1, k) \o << e >> \o SubSeq(sorted, k + 1, Len(sorted))

RECURSIVE SortDesc(_, _)
SortDesc(scored, i) ==
    IF i = 0 THEN << >> ELSE InsertDesc(SortDesc(scored, i - 1), scored[i])

\* variant: one entry more than asked for
SliceToOneMore(s, n) == Slice(s, 0, n + 1)

\* s[:n]
SliceTo(s, n) ==
    IF n >= 0 THEN Slice(s, 0, n)
    ELSE Slice(s, 0, IF Len(s) + n > 0 THEN Len(s) + n ELSE 0)

\* _get_relevant_chunks on the chunks that get_all_chunks returned
\* [chunk for _, chunk in ...]
ChunksOf(top) == [i \in 1..Len(top) |-> top[i].chunk]

\* lines 90-91 on the scored pairs
TopChunks(scored, limit) ==
    IF ~scored.ok THEN scored
    ELSE [ok |-> TRUE, val |-> ChunksOf(SliceTo(SortDesc(scored.val, Len(scored.val)), limit))]

GetRelevantChunks(all_chunks, query, limit) ==
    TopChunks(ScoreChunks(all_chunks, query), limit)

(***************************************************************************)
(* QueryEngine._prepare_context                                            *)
(***************************************************************************)

ImagePlaceholder == <<"[Image content - visual information available]">>

\* content_text of the assembler (lines 99-114)
\* lines 110-112 without the substitution of line 112
OcrNoPlaceholder(o) == PyStr(o)

\* lines 110-112 for the ocr_text value o
OcrOrPlaceholder(o) == IF ~Truthy(o) THEN ImagePlaceholder ELSE PyStr(o)

\* lines 109-114 for the decoded content c
TextOf(c) == IF c.t = "dict" THEN OcrOrPlaceholder(GetOcrText(c.v)) ELSE PyStr(c)

ContextText(content) == TextOf(DecodeContent(content))

\* line 98: chunk.get('filename', 'Unknown')
Filename(chunk) ==
    IF "filename" \in DOMAIN chunk THEN chunk.filename ELSE << "Unknown" >>

\* f"Document: {filename}\nContent:\n{content_text}\n"
ContextPart(chunk) ==
    <<"Document: ">> \o Filename(chunk) \o <<"\n", "Content:", "\n">>
        \o ContextText(chunk.content) \o <<"\n">>

Separator == <<"\n", "-", "-", "-", "\n">>

PrepareContext(chunks) ==
    Join([i \in 1..Len(chunks) |-> ContextPart(chunks[i])], Separator)

(***************************************************************************)
(* "View Relevant Context" of the UI (app.py 158-177)                      *)
(***************************************************************************)

ViewPlaceholder == << "[Image content]" >>

\* content_str[:500] + "..." beyond this length
ViewLimit == 500

\* line 173: content.get('ocr_text', '[Image content]')
ViewOcrText(pairs) ==
    IF DictHas(pairs, <<"o", "c", "r", "_", "t", "e", "x", "t">>)
    THEN DictItem(pairs, <<"o", "c", "r", "_", "t", "e", "x", "t">>)
    ELSE [t |-> "str", v |-> ViewPlaceholder]

\* lines 172-175 for the decoded content c
ViewStr(c) == IF c.t = "dict" THEN PyStr(ViewOcrText(c.v)) ELSE PyStr(c)

\* line 176
Truncated(content_str) ==
    IF Len(content_str) > ViewLimit
    THEN SubSeq(content_str, 1, ViewLimit) \o << ".", ".", "." >>
    ELSE content_str

\* lines 162-176: the text shown for a stored content
ViewText(content) == Truncated(ViewStr(DecodeContent(content)))

(***************************************************************************)
(* json.dumps of an image record (processor.py 71-72)                      *)
(***************************************************************************)

\* encode_basestring_ascii that leaves the double quote as it is
RECURSIVE EscapeJsonNoQuote(_)
EscapeJsonNoQuote(s) ==
    IF s = << >> THEN << >>
    ELSE LET c == Head(s)
             e == IF c = "\\" THEN <<"\\", "\\">>
                  ELSE IF c = "\n" THEN <<"\\", "n">>
                  ELSE << c >>
         IN  e \o EscapeJsonNoQuote(Tail(s))

\* encode_basestring_ascii on the characters of the model's alphabet
RECURSIVE EscapeJson(_)
EscapeJson(s) ==
    IF s = << >> THEN << >>
    ELSE LET c == Head(s)
             e == IF c = "\"" THEN <<"\\", "\"">>
                  ELSE IF c = "\\" THEN <<"\\", "\\">>
                  ELSE IF c = "\n" THEN <<"\\", "n">>
                  ELSE IF c = "\t" THEN <<"\\", "t">>
                  ELSE IF c = "\r" THEN <<"\\", "r">>
                  ELSE IF c = "\f" THEN <<"\\", "f">>
                  ELSE << c >>
         IN  e \o EscapeJson(Tail(s))

RECURSIVE JsonDumps(_)
RECURSIVE DumpItems(_)

DumpItems(pairs) ==
    IF pairs = << >> THEN << >>
    ELSE << <<"\"">> \o EscapeJson(Head(pairs)[1]) \o <<"\"", ":", " ">>
            \o JsonDumps(Head(pairs)[2]) >> \o DumpItems(Tail(pairs))

\* json.dumps(value) with the default separators
JsonDumps(val) ==
    CASE val.t = "null" -> <<"n", "u", "l", "l">>
      [] val.t = "bool" -> (IF val.v THEN <<"t", "r", "u", "e">>
                            ELSE <<"f", "a", "l", "s", "e">>)
      [] val.t = "int"  -> IntStr(val.v)
      [] val.t = "str"  -> <<"\"">> \o EscapeJson(val.v) \o <<"\"">>
      [] val.t = "dict" -> <<"{">> \o Join(DumpItems(val.v), <<",", " ">>) \o <<"}">>

(***************************************************************************)
(* TextProcessor._split_text (text_processor.py 110-153)                   *)
(***************************************************************************)

\* an offset of a slice, as str slicing and str.rfind normalise it for a
\* str of length n: a negative offset counts from the end, and the result
\* is clamped to 0..n
SliceIndex(i, n) ==
    IF i < 0 THEN (IF i + n < 0 THEN 0 ELSE i + n)
    ELSE IF i > n THEN n ELSE i

\* text[start:end]
PySlice(text, start, end) ==
    SubSeq(text, SliceIndex(start, Len(text)) + 1, SliceIndex(end, Len(text)))

\* str.strip(): leading, then trailing whitespace removed
RECURSIVE LStrip(_)
LStrip(s) == IF s # << >> /\ IsSpace(Head(s)) THEN LStrip(Tail(s)) ELSE s

RECURSIVE RStrip(_)
RStrip(s) ==
    IF s # << >> /\ IsSpace(s[Len(s)]) THEN RStrip(SubSeq(s, 1, Len(s) - 1)) ELSE s

Strip(s) == RStrip(LStrip(s))

\* re.sub(r'\s+', ' ', text): every maximal whitespace run becomes one space
RECURSIVE CollapseSpace(_)
CollapseSpace(s) ==
    IF s = << >> THEN << >>
    ELSE IF IsSpace(Head(s)) THEN << " " >> \o CollapseSpace(LStrip(s))
    ELSE << Head(s) >> \o CollapseSpace(Tail(s))

\* line 112: not text or not text.strip()
IsBlank(text) == Strip(text) = << >>

\* line 116
CleanText(text) == Strip(CollapseSpace(text))

\* text.rfind(c, start, end) for a one-character c: the highest 0-based
\* offset in the slice where c stands, or -1
RFind(text, c, start, end) ==
    LET hits == {i \in SliceIndex(start, Len(text))..(SliceIndex(end, Len(text)) - 1) :
                    text[i + 1] = c}
    IN  IF hits = {} THEN -1 ELSE CHOOSE i \in hits : \A j \in hits : j <= i

\* lines 128-133: max of the four rfind results
SentenceEnd(text, start, end) ==
    LET found == { RFind(text, ".", start, end), RFind(text, "!", start, end),
                   RFind(text, "?", start, end), RFind(text, "\n", start, end) }
    IN  CHOOSE m \in found : \A x \in found : x <= m

\* lines 123-136 without the search for a sentence boundary
ChunkEndNoSearch(text, chunk_size, start) == start + chunk_size

\* lines 123-136: the end of the chunk that starts at start
ChunkEnd(text, chunk_size, start) ==
    IF start + chunk_size < Len(text)
          /\ SentenceEnd(text, start, start + chunk_size) > start
    THEN SentenceEnd(text, start, start + chunk_size) + 1
    ELSE start + chunk_size

\* line 151 without the step of at least one character
NextStartNoProgress(start, end, overlap) == end - overlap

\* line 151 moved one character further
NextStartSkipping(start, end, overlap) ==
    IF start + 1 >= end - overlap + 1 THEN start + 1 ELSE end - overlap + 1

\* line 151: start = max(start + 1, end - overlap)
NextStart(start, end, overlap) ==
    IF start + 1 >= end - overlap THEN start + 1 ELSE end - overlap

\* "metadata": {}
EmptyMetadata == [k \in {} |-> 0]

\* lines 138-148 with the chunks numbered from one
EmitFromOne(chunks, chunk_text, chunk_index, start, end) ==
    IF chunk_text # << >>
    THEN Append(chunks, [content |-> chunk_text,
                         metadata |-> [chunk_index |-> chunk_index + 1,
                                       start_pos |-> start, end_pos |-> end]])
    ELSE chunks

\* lines 138-148: the chunks after the window [start, end) of text was cut
\* variant: the two offsets are written to each other's key
EmitOffsetsSwapped(chunks, chunk_text, chunk_index, start, end) ==
    IF chunk_text # << >>
    THEN Append(chunks, [content |-> chunk_text,
                         metadata |-> [chunk_index |-> chunk_index,
                                       start_pos |-> end, end_pos |-> start]])
    ELSE chunks

Emit(chunks, chunk_text, chunk_index, start, end) ==
    IF chunk_text # << >>
    THEN Append(chunks, [content |-> chunk_text,
                         metadata |-> [chunk_index |-> chunk_index,
                                       start_pos |-> start, end_pos |-> end]])
    ELSE chunks

\* line 153: return chunks if chunks else [{"content": text, "metadata": {}}]
ReturnedChunks(chunks, text) ==
    IF chunks # << >> THEN chunks
    ELSE << [content |-> text, metadata |-> EmptyMetadata] >>

\* no call of _split_text in progress
SegIdle ==
    [pc |-> "idle", input |-> << >>, text |-> << >>, chunk_size |-> 0, overlap |-> 0,
     start |-> 0, end |-> 0, chunk_index |-> 0, chunks |-> << >>, ret |-> << >>]

\* _split_text(text, chunk_size, overlap) is entered
SegCall(text, chunk_size, overlap) ==
    [SegIdle EXCEPT !.pc = "enter", !.input = text, !.text = text,
                    !.chunk_size = chunk_size, !.overlap = overlap]

(***************************************************************************)
(* Bounds and input pools                                                  *)
(***************************************************************************)

\* files ingested in one run
MaxFiles == 1
\* entries of the query log
MaxLog == 1
\* chunk rows and file records of a store the ranker is applied to
MaxRankChunks == 2
MaxRankFiles == 2
\* largest limit passed to the ranker when it is applied on its own
MaxLimit == 2

\* chunks handed to the assembler when it is applied on its own
MaxContextChunks == 2
\* longest text handed to _split_text, largest chunk_size and overlap
MaxTextLen == 3
MaxChunkSize == 3
MaxOverlap == 2

\* callers served at once, files and log entries of a store they share
MaxCallers == 2
MaxSharedFiles == 2
MaxSharedLog == 2

\* limit=10 of the retrieval inside query
QueryLimit == 10

\* the callers of the store: the command-line interface is caller 1, the
\* sessions of the web interface are all of them
Callers == 1..MaxCallers

Str(val) == [t |-> "str", v |-> val]

sCat      == <<"c", "a", "t">>
sCatSat   == <<"C", "a", "t", " ", "s", "a", "t">>
sNull     == <<"n", "u", "l", "l">>
sCAT      == <<"C", "A", "T">>
sOcr5     == <<"{", "\"", "o", "c", "r", "_", "t", "e", "x", "t", "\"", ":", " ", "5", "}">>

\* what the text extractors may return for a file: the contents of the
\* chunks of _split_text, in order (whitespace-normalised, stripped)
TextExtractions == { << sCat, sCatSat >>, << sNull >>, << sOcr5 >> }

\* the image record built by process_image (lines 56-60) for an OCR text
ImageRecord(ocr) ==
    [t |-> "dict",
     v |-> << << <<"o", "c", "r", "_", "t", "e", "x", "t">>, Str(ocr) >>,
              << <<"i", "m", "a", "g", "e", "_", "b", "a", "s", "e", "6", "4">>, Str(<<"Q">>) >>,
              << <<"h", "a", "s", "_", "t", "e", "x", "t">>, [t |-> "bool", v |-> ocr # << >>] >> >>]

\* OCR results of pytesseract.image_to_string(image).strip()
OcrTexts == { << >>, <<"c", "a", "t", "\n", "S", "A", "T">> }

ImageExtractions == { << ImageRecord(o) >> : o \in OcrTexts }

\* transcripts returned by _audio_to_text
AudioExtractions == { << <<"a", " ", "c", "a", "t">> >> }

\* names of the files handed to process_file
FileNames ==
    { <<"g", ".", "t", "x", "t">>, <<"p", ".", "P", "N", "G">>,
      <<"s", ".", "m", "p", "3">>, <<"z", ".", "b", "i", "n">> }

\* questions put to query
Questions == { << >>, sCat, <<"C", "A", "T", " ", "s", "a", "t">>, <<"d", "o", "g">> }

\* queries the ranker is applied to on its own
QueryPool ==
    { << >>, <<" ", "\t">>, <<"C", "A", "T", " ", "s", "a", "t">>,
      <<"C", "A", "T", " ", "a", "t", " ", "c", "a", "t">> }

\* stored contents the ranker is applied to on its own, with their
\* content_type: chunks of text files (among them text that is JSON) and a
\* serialised image record
StoredContents ==
    { [content |-> c, content_type |-> "text"] : c \in { sCat, sCatSat, sNull, sOcr5 } }
      \cup { [content |-> JsonDumps(ImageRecord(sCAT)), content_type |-> "image"] }

\* texts handed to _split_text: every text over three characters up to the
\* bound, and texts with the other sentence marks and whitespace characters
SplitTexts ==
    UNION { [1..n -> {"a", ".", " "}] : n \in 0..MaxTextLen }
      \cup { <<"a", "!", "b", " ", "c">>, <<"a", "?", "\n", " ", "b">>, <<"\t", "\n">>,
              <<" ", "a", "\n", "\n", "b", ".">> }

\* chunk_size and overlap arguments, among them chunk_size <= 0, negative
\* overlap and overlap >= chunk_size
ChunkSizes == (-1)..MaxChunkSize
Overlaps == (-1)..MaxOverlap

(***************************************************************************)
(* State                                                                   *)
(***************************************************************************)

VARIABLES
    files,            \* table files: sequence of [id, filename, file_type, processed]
    chunks,           \* table chunks, in insertion order:
                      \*   [id, file_id, chunk_index, content, content_type]
    queries,          \* table queries: sequence of [query_text, response_text]
    sequence,         \* table sqlite_sequence: the largest id each AUTOINCREMENT
                      \*   table has handed out
    ing,              \* the process_file / process_youtube call of each caller
    pc,               \* position of the query call in progress
    path,             \* stages of the pipeline the call went through
    user_query,       \* argument of query / _get_relevant_chunks
    limit,            \* argument limit of _get_relevant_chunks
    all_chunks,       \* local all_chunks of _get_relevant_chunks
    relevant_chunks,  \* local relevant_chunks of query
    context,          \* local context of query
    backend_calls,    \* prompts handed to model.generate_content in this call
    backend,          \* what generate_content did: a response or a raised error
    result,           \* [kind |-> "none" | "str" | "raise", val]
    seg,              \* the _split_text call in progress
    shown             \* texts displayed by the UI's "View Relevant Context"

vars == << files, chunks, queries, sequence, ing, pc, path, user_query, limit, all_chunks,
           relevant_chunks, context, backend_calls, backend, result, seg, shown >>

storeVars == << files, chunks, queries, sequence >>
queryVars == << pc, path, user_query, limit, all_chunks, relevant_chunks, context,
                backend_calls, backend, result >>
auxVars == << seg, shown >>

(***************************************************************************)
(* KnowledgeBase (database.py)                                             *)
(***************************************************************************)

\* the id an INSERT gives its row (cursor.lastrowid): the columns are INTEGER
\* PRIMARY KEY AUTOINCREMENT, so it is one more than the largest id the
\* table ever held, rows deleted since included
LastRowId(seq, table) == seq[table] + 1

\* add_file: INSERT INTO files; the new row has processed = 0
AddFile(fs, file_id, filename, file_type) ==
    Append(fs, [id |-> file_id, filename |-> filename,
                file_type |-> file_type, processed |-> FALSE])

\* variant: the rows are numbered by one counter for all the files
AddChunkRowNumberedByRow(cs, id, file_id, chunk_index, content, content_type) ==
    Append(cs, [id |-> id, file_id |-> file_id, chunk_index |-> id - 1,
                content |-> content, content_type |-> content_type])

\* add_chunk: INSERT INTO chunks; no PRAGMA foreign_keys is issued, so the
\* reference to files is not enforced
AddChunkRow(cs, id, file_id, chunk_index, content, content_type) ==
    Append(cs, [id |-> id, file_id |-> file_id, chunk_index |-> chunk_index,
                content |-> content, content_type |-> content_type])

\* variant: UPDATE files SET processed = 1 without the WHERE clause
MarkEveryFileProcessed(fs, file_id) ==
    [i \in 1..Len(fs) |-> [fs[i] EXCEPT !.processed = TRUE]]

\* mark_file_processed: UPDATE files SET processed = 1 WHERE id = ?
MarkFileProcessed(fs, file_id) ==
    [i \in 1..Len(fs) |-> IF fs[i].id = file_id
                          THEN [fs[i] EXCEPT !.processed = TRUE] ELSE fs[i]]

\* ORDER BY f.id, c.chunk_index : a comes before b
RowBefore(a, b) ==
    \/ a.file_id < b.file_id
    \/ a.file_id = b.file_id /\ a.chunk_index < b.chunk_index

\* place a row after every row already placed that does not come after it
InsertRow(sorted, r) ==
    LET k == Cardinality({i \in 1..Len(sorted) : ~RowBefore(r, sorted[i])})
    IN  SubSeq(sorted, 1, k) \o << r >> \o SubSeq(sorted, k + 1, Len(sorted))

RECURSIVE OrderRows(_, _)
OrderRows(rows, i) ==
    IF i = 0 THEN << >> ELSE InsertRow(OrderRows(rows, i - 1), rows[i])

\* FROM chunks c JOIN files f ON c.file_id = f.id
RECURSIVE JoinRows(_, _)
JoinRows(cs, fs) ==
    IF cs = << >> THEN << >>
    ELSE LET c     == Head(cs)
             owner == {i \in 1..Len(fs) : fs[i].id = c.file_id}
         IN  (IF owner = {} THEN << >>
              ELSE LET f == fs[CHOOSE i \in owner : TRUE]
                   IN  << [id |-> c.id, file_id |-> c.file_id,
                           chunk_index |-> c.chunk_index, content |-> c.content,
                           content_type |-> c.content_type,
                           filename |-> f.filename, file_type |-> f.file_type] >>)
             \o JoinRows(Tail(cs), fs)

\* variant: the join is restricted to processed files (WHERE f.processed = 1)
GetAllChunksOfProcessed(fs, cs) ==
    LET Done(f) == f.processed
        rows    == JoinRows(cs, SelectSeq(fs, Done))
    IN  OrderRows(rows, Len(rows))

\* get_all_chunks() without a content_type filter
GetAllChunks(fs, cs) ==
    LET rows == JoinRows(cs, fs) IN OrderRows(rows, Len(rows))

\* save_query: INSERT INTO queries
SaveQueryRowTwice(qs, query_text, response_text) ==
    Append(Append(qs, [query_text |-> query_text, response_text |-> response_text]),
           [query_text |-> query_text, response_text |-> response_text])

\* variant: the newest entry is overwritten
SaveQueryRowOverwriting(qs, query_text, response_text) ==
    IF qs = << >> THEN << [query_text |-> query_text, response_text |-> response_text] >>
    ELSE [qs EXCEPT ![Len(qs)] = [query_text |-> query_text, response_text |-> response_text]]

SaveQueryRow(qs, query_text, response_text) ==
    Append(qs, [query_text |-> query_text, response_text |-> response_text])

\* clear_all_data: DELETE FROM chunks, files and queries in one transaction;
\* sqlite_sequence keeps the ids handed out so far
ClearAllData ==
    /\ files' = << >>
    /\ chunks' = << >>
    /\ queries' = << >>
    /\ UNCHANGED << sequence, ing >>
    /\ UNCHANGED queryVars
    /\ UNCHANGED auxVars

\* delete_query_history: DELETE FROM queries
DeleteQueryHistory ==
    /\ queries' = << >>
    /\ UNCHANGED << files, chunks, sequence, ing >>
    /\ UNCHANGED queryVars
    /\ UNCHANGED auxVars

(***************************************************************************)
(* FileProcessor.process_file (processor.py)                               *)
(***************************************************************************)

\* os.path.splitext(path)[1]: from the last dot, unless only dots precede it
SplitExt(name) ==
    LET dots == {i \in 1..Len(name) : name[i] = "."}
    IN  IF dots = {} THEN << >>
        ELSE LET d == CHOOSE i \in dots : \A j \in dots : j <= i
             IN  IF \A j \in 1..(d - 1) : name[j] = "." THEN << >>
                 ELSE SubSeq(name, d, Len(name))

\* config.ALLOWED_EXTENSIONS
AllowedExtensions ==
    [text  |-> { <<".", "p", "d", "f">>, <<".", "d", "o", "c", "x">>,
                 <<".", "p", "p", "t", "x">>, <<".", "m", "d">>, <<".", "t", "x", "t">> },
     image |-> { <<".", "p", "n", "g">>, <<".", "j", "p", "g">>, <<".", "j", "p", "e", "g">> },
     audio |-> { <<".", "m", "p", "3">> },
     video |-> { <<".", "m", "p", "4">> }]

GetFileType(file_path) ==
    LET ext == Lower(SplitExt(file_path))
    IN  IF ext \in AllowedExtensions.text THEN "text"
        ELSE IF ext \in AllowedExtensions.image THEN "image"
        ELSE IF ext \in AllowedExtensions.audio THEN "audio"
        ELSE IF ext \in AllowedExtensions.video THEN "video"
        ELSE "unknown"

\* what the extractor of a file did: its body ran to the end and returned the
\* contents items, or it raised an exception whose str() is err
Extracted(items) == [kind |-> "ok", items |-> items, err |-> << >>]
Raised(err) == [kind |-> "raise", items |-> << >>, err |-> err]
\* subprocess.run(..., check=True) raised CalledProcessError (process_video)
FfmpegFailed(err) == [kind |-> "ffmpeg", items |-> << >>, err |-> err]
\* no extractor ran
NoExtraction == [kind |-> "none", err |-> << >>]

\* the content dict of the except branch of process_image (lines 69-72)
ErrorImageRecord(ocr) ==
    [t |-> "dict",
     v |-> << << <<"o", "c", "r", "_", "t", "e", "x", "t">>, Str(ocr) >>,
              << <<"i", "m", "a", "g", "e", "_", "b", "a", "s", "e", "6", "4">>, [t |-> "null"] >>,
              << <<"h", "a", "s", "_", "t", "e", "x", "t">>, [t |-> "bool", v |-> FALSE] >> >>]

\* the prefix of the diagnostic of a text extractor (lines 29, 55, 77, 91, 105)
TextErrorPrefix(ext) ==
    CASE ext = <<".", "p", "d", "f">> -> << "Error reading PDF: " >>
      [] ext = <<".", "d", "o", "c", "x">> -> << "Error reading DOCX: " >>
      [] ext = <<".", "p", "p", "t", "x">> -> << "Error reading PPTX: " >>
      [] ext = <<".", "t", "x", "t">> -> << "Error reading TXT: " >>
      [] ext = <<".", "m", "d">> -> << "Error reading MD: " >>

FfmpegMessage ==
    << "Video processing requires ffmpeg. Please install ffmpeg to process video files." >>

\* an except branch that returns no item at all
DiagnosticDropped(file_type, ext, outcome) == << >>

\* the except branches of the extractors: the chunks they return
Diagnostic(file_type, ext, outcome) ==
    CASE file_type = "text"  -> << Str(TextErrorPrefix(ext) \o outcome.err) >>
      [] file_type = "image" ->
             << ErrorImageRecord(<< "Error reading image: " >> \o outcome.err) >>
      [] file_type = "audio" -> << Str(<< "Error processing audio: " >> \o outcome.err) >>
      [] file_type = "video" ->
             (IF outcome.kind = "ffmpeg" THEN << Str(FfmpegMessage) >>
              ELSE << Str(<< "Error processing video: " >> \o outcome.err) >>)
      [] file_type = "youtube" ->
             << Str(<< "Error processing YouTube video: " >> \o outcome.err) >>

\* the chunks the extractor of a file returns to process_file
ExtractFile(file_type, ext, outcome) ==
    IF outcome.kind = "ok" THEN outcome.items ELSE Diagnostic(file_type, ext, outcome)

\* f"Title: {title}\nDescription: {description}\n\nTranscript:\n{text_content}"
YoutubeContent(title, description, text_content) ==
    << "Title: " >> \o title \o << "\n", "Description: " >> \o description
        \o << "\n", "\n", "Transcript:", "\n" >> \o text_content

\* the chunk contents an extractor may return for a file of a type; a text
\* content is a str value, an image content is a dict value
Extractions(file_type) ==
    CASE file_type = "text"  -> { [i \in 1..Len(e) |-> Str(e[i])] : e \in TextExtractions }
      [] file_type = "image" -> ImageExtractions
      [] file_type \in {"audio", "video"} ->
             { [i \in 1..Len(e) |-> Str(e[i])] : e \in AudioExtractions }
      [] OTHER -> { << >> }

ContentTypeOf(file_type) ==
    CASE file_type = "text" -> "text"
      [] file_type = "image" -> "image"
      [] OTHER -> "audio_video"

\* lines 71-74: json.dumps for a dict content, str() otherwise
ContentStr(content) ==
    IF content.t = "dict" THEN JsonDumps(content) ELSE PyStr(content)

\* a caller outside process_file / process_youtube; ret, file_id and
\* chunks_count are what its last call returned ('success', 'file_id',
\* 'chunks_count'; chunks_count is 0 when the dict has no such key)
IngReturn(ret, file_id, chunks_count) ==
    [pc |-> "idle", file_id |-> file_id, pending |-> << >>, idx |-> 0,
     content_type |-> "", extraction |-> NoExtraction, ret |-> ret,
     chunks_count |-> chunks_count]

IngIdle(ret) == IngReturn(ret, 0, 0)

\* no call of process_file / process_youtube is in progress
NoIngestion == \A c \in Callers : ing[c].pc = "idle"

\* process_file up to the end of the extraction (lines 36-63): add_file, then
\* either the early return for an unsupported type or the chunks to store;
\* outcome is what the extractor of the file does
ProcessFileStart(c, filename, outcome) ==
    LET file_type == GetFileType(filename)
        file_id   == LastRowId(sequence, "files")
        found     == ExtractFile(file_type, Lower(SplitExt(filename)), outcome)
    IN  /\ ing[c].pc = "idle"
        /\ files' = AddFile(files, file_id, filename, file_type)
        /\ sequence' = [sequence EXCEPT !.files = file_id]
        /\ ing' = [ing EXCEPT ![c] =
                      IF file_type = "unknown" THEN IngReturn("failure", file_id, 0)
                      ELSE [pc |-> "store", file_id |-> file_id, pending |-> found,
                            idx |-> 0, content_type |-> ContentTypeOf(file_type),
                            extraction |-> [kind |-> outcome.kind, err |-> outcome.err],
                            ret |-> "none", chunks_count |-> Len(found)]]
        /\ UNCHANGED << chunks, queries >>
        /\ UNCHANGED queryVars
        /\ UNCHANGED auxVars

\* process_youtube up to the end of the extraction (lines 97-101)
ProcessYoutubeStart(c, url, outcome) ==
    LET file_id == LastRowId(sequence, "files")
        found   == ExtractFile("youtube", << >>, outcome)
    IN  /\ ing[c].pc = "idle"
        /\ files' = AddFile(files, file_id, << "YouTube: " >> \o url, "youtube")
        /\ sequence' = [sequence EXCEPT !.files = file_id]
        /\ ing' = [ing EXCEPT ![c] =
                      [pc |-> "store", file_id |-> file_id, pending |-> found,
                       idx |-> 0, content_type |-> "audio_video",
                       extraction |-> [kind |-> outcome.kind, err |-> outcome.err],
                       ret |-> "none", chunks_count |-> Len(found)]]
        /\ UNCHANGED << chunks, queries >>
        /\ UNCHANGED queryVars
        /\ UNCHANGED auxVars

\* one iteration of the loop of lines 66-76 (of lines 104-108 in
\* process_youtube, whose contents are str values: str(content))
StoreChunk(c) ==
    /\ ing[c].pc = "store"
    /\ ing[c].pending # << >>
    /\ chunks' = AddChunkRow(chunks, LastRowId(sequence, "chunks"), ing[c].file_id,
                             ing[c].idx, ContentStr(Head(ing[c].pending)),
                             ing[c].content_type)
    /\ sequence' = [sequence EXCEPT !.chunks = LastRowId(sequence, "chunks")]
    /\ ing' = [ing EXCEPT ![c].pending = Tail(ing[c].pending), ![c].idx = ing[c].idx + 1]
    /\ UNCHANGED << files, queries >>
    /\ UNCHANGED queryVars
    /\ UNCHANGED auxVars

\* lines 78-86: the loop is over, mark_file_processed and return success
FinishFile(c) ==
    /\ ing[c].pc = "store"
    /\ ing[c].pending = << >>
    /\ files' = MarkFileProcessed(files, ing[c].file_id)
    /\ ing' = [ing EXCEPT ![c] = IngReturn("success", ing[c].file_id, ing[c].chunks_count)]
    /\ UNCHANGED << chunks, queries, sequence >>
    /\ UNCHANGED queryVars
    /\ UNCHANGED auxVars

\* lines 88-93: a store operation raised, process_file returns success False
FailFile(c) ==
    /\ ing[c].pc = "store"
    /\ ing' = [ing EXCEPT ![c] = IngReturn("failure", ing[c].file_id, 0)]
    /\ UNCHANGED << files, chunks, queries, sequence >>
    /\ UNCHANGED queryVars
    /\ UNCHANGED auxVars

(***************************************************************************)
(* QueryEngine.query (query_engine.py 120-167)                             *)
(***************************************************************************)

NoInfoMessage ==
    <<"I couldn't find any relevant information in the processed files. Please make sure you have uploaded and processed some files first.">>

\* variant: the lower-cased query is embedded
PromptLowerQuery(ctx, query) ==
    <<"You are a helpful assistant that answers questions based on the provided context from various documents.\n\nContext from documents:\n">>
        \o ctx \o <<"\n\nUser Question: ">> \o Lower(query)
        \o <<"\n\nPlease provide a clear, accurate answer based on the context above. If the information is not available in the context, say so. If you need to reference specific documents, mention the document names.\n\nAnswer:">>

\* the f-string of lines 133-142
Prompt(ctx, query) ==
    <<"You are a helpful assistant that answers questions based on the provided context from various documents.\n\nContext from documents:\n">>
        \o ctx \o <<"\n\nUser Question: ">> \o query
        \o <<"\n\nPlease provide a clear, accurate answer based on the context above. If the information is not available in the context, say so. If you need to reference specific documents, mention the document names.\n\nAnswer:">>

s404 == <<"4", "0", "4">>
s403 == <<"4", "0", "3">>
sNotFound == <<"n", "o", "t", " ", "f", "o", "u", "n", "d">>
sPermission == <<"p", "e", "r", "m", "i", "s", "s", "i", "o", "n">>
sApiKeyName == <<"G", "E", "M", "I", "N", "I", "_", "A", "P", "I", "_", "K", "E", "Y">>

ModelErrorPrefix ==
    <<"Model error: The Gemini model is not available. Please check your API key and model configuration. Error: ">>
ApiKeyErrorPrefix ==
    <<"API key error: Please check your GEMINI_API_KEY in the .env file. Error: ">>
ApiErrorPrefix == <<"API error: ">>

\* variant: no permission/auth category
ClassifyErrorNoAuth(error_msg) ==
    IF Contains(error_msg, s404) \/ Contains(Lower(error_msg), sNotFound)
    THEN ModelErrorPrefix \o error_msg
    ELSE ApiErrorPrefix \o error_msg

\* the handler of lines 154-161 applied to str(api_error)
ClassifyError(error_msg) ==
    IF Contains(error_msg, s404) \/ Contains(Lower(error_msg), sNotFound)
    THEN ModelErrorPrefix \o error_msg
    ELSE IF Contains(error_msg, s403) \/ Contains(Lower(error_msg), sPermission)
    THEN ApiKeyErrorPrefix \o error_msg
    ELSE ApiErrorPrefix \o error_msg

\* the handler of lines 163-167 applied to str(e)
OuterHandler(error_msg) ==
    IF Contains(error_msg, sApiKeyName)
    THEN <<"Configuration error: ">> \o error_msg
         \o <<". Please set your GEMINI_API_KEY in the .env file.">>
    ELSE <<"Error processing query: ">> \o error_msg
         \o <<". Please check your configuration and try again.">>

\* str(e) of the IndexError raised by parts[0] on an empty list
sIndexError == <<"l", "i", "s", "t", " ", "i", "n", "d", "e", "x", " ", "o", "u", "t",
                 " ", "o", "f", " ", "r", "a", "n", "g", "e">>
\* str(response)
sResponseRepr == <<"response:">>

\* A backend response: the text accessor is present ("ok"), missing
\* ("absent", an AttributeError that hasattr turns into False) or raises
\* another error ("raises", val is its message); candidates is missing or a
\* list of candidates, each with the texts of its content parts.
Response(tk, tv, hc, cv) ==
    [text |-> [kind |-> tk, val |-> tv], candidates |-> [has |-> hc, val |-> cv]]

sAns == <<"a", "n", "s">>
sBlocked == <<"b", "l", "o", "c", "k", "e", "d">>

Responses ==
    { Response("ok", sAns, TRUE, << [parts |-> << sCat >>] >>),
      Response("absent", << >>, TRUE, << [parts |-> << sCat >>] >>),
      Response("absent", << >>, TRUE, << >>),
      Response("absent", << >>, FALSE, << >>),
      Response("raises", sBlocked, TRUE, << [parts |-> << >>] >>),
      Response("absent", << >>, TRUE, << [parts |-> << >>] >>) }

\* str(api_error) of the errors generate_content may raise
BackendErrors ==
    { s403 \o <<" ", "d", "e", "n", "i", "e", "d">>,
      s404 \o <<" ", "g", "o", "n", "e">>,
      <<"K", "e", "y", " ", "N", "o", "t", " ", "F", "o", "u", "n", "d", " ">> \o s403,
      <<"P", "e", "r", "m", "i", "s", "s", "i", "o", "n">>,
      <<"5", "0", "0">> }

\* str(e) of the errors a store read may raise
StoreErrors == { <<"l", "o", "c", "k", "e", "d">> }

NoResponse == Response("absent", << >>, FALSE, << >>)

BackendOutcomes ==
    { [kind |-> "response", err |-> << >>, response |-> r] : r \in Responses }
      \cup { [kind |-> "raise", err |-> e, response |-> NoResponse] : e \in BackendErrors }

\* lines 148-153: ok = FALSE when an exception left the block, val is its str
ExtractAnswer(response) ==
    IF response.text.kind = "raises" THEN [ok |-> FALSE, val |-> response.text.val]
    ELSE IF response.text.kind = "ok" THEN [ok |-> TRUE, val |-> response.text.val]
    ELSE IF response.candidates.has /\ Len(response.candidates.val) > 0
         THEN (IF response.candidates.val[1].parts = << >>
               THEN [ok |-> FALSE, val |-> sIndexError]
               ELSE [ok |-> TRUE, val |-> response.candidates.val[1].parts[1]])
    ELSE [ok |-> TRUE, val |-> sResponseRepr]

\* what the statement  return <str>  leaves to the caller
Returned(val) == [kind |-> "str", val |-> val]

\* variant: no handler, the exception leaves query
Uncaught(error_msg) == [kind |-> "raise", val |-> error_msg]

\* an exception caught by the handler of lines 163-167
CaughtOuter(error_msg) == Returned(OuterHandler(error_msg))

\* an exception caught by the handler of lines 154-161
CaughtInner(error_msg) == Returned(ClassifyError(error_msg))

NoBackend == [kind |-> "none", err |-> << >>, response |-> NoResponse]
NoResult == [kind |-> "none", val |-> << >>]

\* variant: the empty result is not tested
IsNoMatchNever(rel) == FALSE

\* line 126: if not relevant_chunks
IsNoMatch(rel) == rel = << >>

\* a caller (cli.py 80, app.py 148) calls query(user_query)
QueryStart(q) ==
    /\ pc = "IDLE"
    /\ pc' = "RETRIEVE"
    /\ path' = << "START" >>
    /\ user_query' = q
    /\ limit' = QueryLimit
    /\ all_chunks' = << >>
    /\ relevant_chunks' = << >>
    /\ context' = << >>
    /\ backend_calls' = << >>
    /\ backend' = NoBackend
    /\ result' = NoResult
    /\ UNCHANGED << seg, shown, sequence, files, chunks, queries, ing >>

\* lines 124-127: _get_relevant_chunks(user_query, limit=10) and the test of
\* its result; the ranker raises when a stored ocr_text is not a str
Retrieve ==
    /\ pc = "RETRIEVE"
    /\ LET got == GetAllChunks(files, chunks)
           r   == GetRelevantChunks(got, user_query, limit)
       IN  /\ all_chunks' = got
           /\ IF ~r.ok
              THEN /\ relevant_chunks' = << >>
                   /\ result' = CaughtOuter(r.val)
                   /\ path' = Append(path, "RETRIEVE")
                   /\ pc' = "RETURNED"
              ELSE IF IsNoMatch(r.val)
              THEN /\ relevant_chunks' = r.val
                   /\ result' = Returned(NoInfoMessage)
                   /\ path' = path \o << "RETRIEVE", "NO_MATCH" >>
                   /\ pc' = "RETURNED"
              ELSE /\ relevant_chunks' = r.val
                   /\ result' = result
                   /\ path' = Append(path, "RETRIEVE")
                   /\ pc' = "ASSEMBLE"
    /\ UNCHANGED << seg, shown, sequence, files, chunks, queries, ing, user_query, limit, context,
                    backend_calls, backend >>

\* line 60 when the store read raises (sqlite3 error)
RetrieveFails(e) ==
    /\ pc = "RETRIEVE"
    /\ result' = CaughtOuter(e)
    /\ path' = Append(path, "RETRIEVE")
    /\ pc' = "RETURNED"
    /\ UNCHANGED << seg, shown, sequence, files, chunks, queries, ing, user_query, limit, all_chunks,
                    relevant_chunks, context, backend_calls, backend >>

\* line 130: context = self._prepare_context(relevant_chunks)
Assemble ==
    /\ pc = "ASSEMBLE"
    /\ context' = PrepareContext(relevant_chunks)
    /\ path' = Append(path, "ASSEMBLE")
    /\ pc' = "GENERATE"
    /\ UNCHANGED << seg, shown, sequence, files, chunks, queries, ing, user_query, limit, all_chunks,
                    relevant_chunks, backend_calls, backend, result >>

\* lines 133-161: the prompt, the call of generate_content and what is made
\* of its outcome
Generate(out) ==
    /\ pc = "GENERATE"
    /\ backend_calls' = Append(backend_calls, Prompt(context, user_query))
    /\ backend' = out
    /\ LET ans == ExtractAnswer(out.response)
       IN  IF out.kind = "raise"
           THEN /\ result' = CaughtInner(out.err)
                /\ path' = path \o << "GENERATE", "BACKEND_ERROR" >>
           ELSE IF ans.ok
           THEN /\ result' = Returned(ans.val)
                /\ path' = path \o << "GENERATE", "SUCCESS" >>
           ELSE /\ result' = CaughtInner(ans.val)
                /\ path' = path \o << "GENERATE", "BACKEND_ERROR" >>
    /\ pc' = "RETURNED"
    /\ UNCHANGED << seg, shown, sequence, files, chunks, queries, ing, user_query, limit, all_chunks,
                    relevant_chunks, context >>

\* the caller logs the exchange: db.save_query(question, response)
\* (cli.py 87, app.py 155); the locals of the call are gone
SaveQuery ==
    /\ pc = "RETURNED"
    /\ queries' = SaveQueryRow(queries, user_query, result.val)
    /\ pc' = "IDLE"
    /\ path' = << >>
    /\ user_query' = << >>
    /\ all_chunks' = << >>
    /\ relevant_chunks' = << >>
    /\ context' = << >>
    /\ backend_calls' = << >>
    /\ backend' = NoBackend
    /\ result' = NoResult
    /\ UNCHANGED << seg, shown, sequence, files, chunks, ing, limit >>

(***************************************************************************)
(* QueryEngine.query_with_images (query_engine.py 169-211)                 *)
(***************************************************************************)

\* limit=5 of the retrieval of line 186
ImagesLimit == 5

\* the words of line 193
ImageWords ==
    { <<"i", "m", "a", "g", "e">>, <<"p", "i", "c", "t", "u", "r", "e">>,
      <<"p", "h", "o", "t", "o">>, <<"s", "e", "e">>, <<"s", "h", "o", "w">>,
      <<"w", "h", "a", "t">>, <<"d", "e", "s", "c", "r", "i", "b", "e">> }

\* any(word in user_query.lower() for word in [...])
AsksAboutImages(query) == \E w \in ImageWords : Contains(Lower(query), w)

\* line 180: isinstance(chunk.get('content'), dict) and
\* chunk['content'].get('image_base64'); the content of a row of
\* get_all_chunks is the str of column content (database.py 130)
HoldsImage(chunk) ==
    LET content == Str(chunk.content)
    IN  /\ content.t = "dict"
        /\ DictHas(content.v, <<"i", "m", "a", "g", "e", "_", "b", "a", "s", "e", "6", "4">>)
        /\ Truthy(DictItem(content.v,
                           <<"i", "m", "a", "g", "e", "_", "b", "a", "s", "e", "6", "4">>))

\* lines 179-183: the chunks put on image_chunks
ImageChunks(got) == SelectSeq(got, HoldsImage)

\* the prompt of lines 196-203
ImagesPrompt(text_context, query) ==
    <<"Based on the following context from documents, answer the user's question.\n\nText Context:\n">>
        \o text_context \o <<"\n\nUser Question: ">> \o query \o <<"\n\nAnswer:">>

\* line 211: the handler of query_with_images
CaughtImages(error_msg) == Returned(<<"Error processing query with images: ">> \o error_msg)

\* str(e) of the AttributeError of response.text on a response without it
sNoTextAttribute == <<"'GenerateContentResponse' object has no attribute 'text'">>

\* lines 205-206: generate_content and response.text, inside the handler
ImagesAnswer(out) ==
    IF out.kind = "raise" THEN CaughtImages(out.err)
    ELSE IF out.response.text.kind = "ok" THEN Returned(out.response.text.val)
    ELSE IF out.response.text.kind = "raises" THEN CaughtImages(out.response.text.val)
    ELSE CaughtImages(sNoTextAttribute)

\* query_with_images up to its return or to its call of query: the store is
\* read, the chunks are separated, the text chunks are ranked and assembled
\* (lines 172-190); then the image branch (lines 193-206) or the call
\* self.query(user_query) (line 209), whose steps are those of query
QueryWithImages(out) ==
    /\ pc = "IMAGES"
    /\ LET got          == GetAllChunks(files, chunks)
           image_chunks == ImageChunks(got)
           r            == GetRelevantChunks(got, user_query, ImagesLimit)
       IN  IF ~r.ok
           THEN /\ result' = CaughtImages(r.val)
                /\ path' = << "IMAGES", "ERROR" >>
                /\ pc' = "RETURNED"
                /\ UNCHANGED << backend_calls, backend >>
           ELSE IF image_chunks # << >> /\ AsksAboutImages(user_query)
           THEN /\ backend_calls' = << ImagesPrompt(PrepareContext(r.val), user_query) >>
                /\ backend' = out
                /\ result' = ImagesAnswer(out)
                /\ path' = << "IMAGES", "VISION" >>
                /\ pc' = "RETURNED"
           ELSE /\ result' = NoResult
                /\ path' = << "START" >>
                /\ pc' = "RETRIEVE"
                /\ UNCHANGED << backend_calls, backend >>
    /\ UNCHANGED << seg, shown, sequence, files, chunks, queries, ing, user_query, limit,
                    all_chunks, relevant_chunks, context >>

(***************************************************************************)
(* Specification: ingestion and queries, one call at a time (spec.md 5:    *)
(* single-threaded, request-per-call)                                      *)
(***************************************************************************)

Init ==
    /\ files = << >>
    /\ chunks = << >>
    /\ queries = << >>
    /\ sequence = [files |-> 0, chunks |-> 0]
    /\ ing = [c \in Callers |-> IngIdle("none")]
    /\ pc = "IDLE"
    /\ path = << >>
    /\ user_query = << >>
    /\ limit = QueryLimit
    /\ all_chunks = << >>
    /\ relevant_chunks = << >>
    /\ context = << >>
    /\ backend_calls = << >>
    /\ backend = NoBackend
    /\ result = NoResult
    /\ seg = SegIdle
    /\ shown = << >>

\* calls are made one at a time by the one caller: a file is taken up
\* between two queries, a query between two files
Next ==
    \/ \E f \in FileNames : \E e \in Extractions(GetFileType(f)) :
          /\ pc = "IDLE"
          /\ sequence.files < MaxFiles
          /\ ProcessFileStart(1, f, Extracted(e))
    \/ StoreChunk(1)
    \/ FinishFile(1)
    \/ FailFile(1)
    \/ \E q \in Questions :
          /\ NoIngestion
          /\ Len(queries) < MaxLog
          /\ QueryStart(q)
    \/ Retrieve
    \/ \E e \in StoreErrors : RetrieveFails(e)
    \/ Assemble
    \/ \E out \in BackendOutcomes : Generate(out)
    \/ SaveQuery

Spec == Init /\ [][Next]_vars

(***************************************************************************)
(* Specification: the ranker and the assembler applied to a store, a       *)
(* query and a limit drawn from the pools.  The store holds up to          *)
(* MaxRankChunks chunk rows of up to MaxRankFiles files, inserted in any   *)
(* interleaving; an image file owns exactly one chunk.                     *)
(***************************************************************************)

RankFile(f, owner, cont) ==
    LET mine == {i \in DOMAIN owner : owner[i] = f}
        ct   == IF mine = {} THEN "none" ELSE cont[CHOOSE i \in mine : TRUE].content_type
    IN  [id |-> f,
         filename |-> IF ct = "text" THEN <<"g", ".", "t", "x", "t">>
                      ELSE IF ct = "image" THEN <<"p", ".", "P", "N", "G">>
                      ELSE <<"z", ".", "b", "i", "n">>,
         file_type |-> IF ct = "none" THEN "unknown" ELSE ct,
         processed |-> ct # "none"]

RankChunk(i, owner, cont) ==
    [id |-> i, file_id |-> owner[i],
     chunk_index |-> Cardinality({j \in 1..(i - 1) : owner[j] = owner[i]}),
     content |-> cont[i].content, content_type |-> cont[i].content_type]

RankInit ==
    /\ \E n \in 0..MaxRankChunks :
       \E owner \in [1..n -> 1..MaxRankFiles] :
       \E cont \in [1..n -> StoredContents] :
          /\ \A i, j \in 1..n :
                (owner[i] = owner[j] /\ i # j) =>
                    /\ cont[i].content_type = cont[j].content_type
                    /\ cont[i].content_type # "image"
          /\ files = [f \in 1..MaxRankFiles |-> RankFile(f, owner, cont)]
          /\ chunks = [i \in 1..n |-> RankChunk(i, owner, cont)]
          /\ sequence = [files |-> MaxRankFiles, chunks |-> n]
    /\ queries = << >>
    /\ ing = [c \in Callers |-> IngIdle("none")]
    /\ pc = "RETRIEVE"
    /\ path = << "START" >>
    /\ user_query \in QueryPool
    /\ limit \in 0..MaxLimit
    /\ all_chunks = << >>
    /\ relevant_chunks = << >>
    /\ context = << >>
    /\ backend_calls = << >>
    /\ backend = NoBackend
    /\ result = NoResult
    /\ seg = SegIdle
    /\ shown = << >>

RankNext == Retrieve \/ Assemble

RankSpec == RankInit /\ [][RankNext]_vars

(***************************************************************************)
(* Specification: ingestion on its own, every extractor with its           *)
(* successful and its failing outcomes, and process_youtube                *)
(***************************************************************************)

\* files handed to process_file: one name or more for every extractor
IngestNames ==
    { <<"d", ".", "p", "d", "f">>, <<"n", ".", "D", "o", "c", "x">>,
      <<"t", ".", "p", "p", "t", "x">>, <<"g", ".", "t", "x", "t">>,
      <<"r", ".", "m", "d">>, <<"p", ".", "P", "N", "G">>, <<"s", ".", "m", "p", "3">>,
      <<"v", ".", "m", "p", "4">>, <<"z", ".", "b", "i", "n">> }

\* URLs handed to process_youtube
YoutubeUrls == { << "https://youtu.be/x" >> }

\* str(e) of the exceptions raised inside the extractors
ExtractErrors == { <<"b", "a", "d">>, <<"n", "o", " ", "\"", "x", "\"">> }

\* OCR results, among them text with characters json.dumps escapes and text
\* holding a line of dashes
IngestOcrTexts ==
    OcrTexts \cup { <<"a", "\"", "\\", "b">>, <<"x", "\n", "-", "-", "-", "\n", "y">> }

\* a description with a line of dashes, as video descriptions have
YoutubeItems ==
    << Str(YoutubeContent(<<"T">>, <<"d", "\n", "-", "-", "-", "\n", "e">>, sCat)) >>

\* what the extractor of a file of a type may do
ExtractorOutcomes(file_type) ==
    CASE file_type = "text" ->
             { Extracted(e) : e \in Extractions("text") }
               \cup { Raised(x) : x \in ExtractErrors }
      [] file_type = "image" ->
             { Extracted(<< ImageRecord(o) >>) : o \in IngestOcrTexts }
               \cup { Raised(x) : x \in ExtractErrors }
      [] file_type = "audio" ->
             { Extracted(e) : e \in Extractions("audio") }
               \cup { Raised(x) : x \in ExtractErrors }
      [] file_type = "video" ->
             { Extracted(e) : e \in Extractions("video") }
               \cup { Raised(x) : x \in ExtractErrors }
               \cup { FfmpegFailed(x) : x \in ExtractErrors }
      [] file_type = "youtube" ->
             { Extracted(YoutubeItems), Extracted(<< >>) }
               \cup { Raised(x) : x \in ExtractErrors }
      [] OTHER -> { Extracted(<< >>) }

IngestNext ==
    \/ \E f \in IngestNames : \E o \in ExtractorOutcomes(GetFileType(f)) :
          /\ sequence.files < MaxFiles
          /\ ProcessFileStart(1, f, o)
    \/ \E u \in YoutubeUrls : \E o \in ExtractorOutcomes("youtube") :
          /\ sequence.files < MaxFiles
          /\ ProcessYoutubeStart(1, u, o)
    \/ StoreChunk(1)
    \/ FinishFile(1)
    \/ FailFile(1)

IngestSpec == Init /\ [][IngestNext]_vars

(***************************************************************************)
(* Specification: the assembler and the UI's context view applied to a     *)
(* sequence of chunks drawn from a pool                                    *)
(***************************************************************************)

sNoOcr      == <<"{", "\"", "a", "\"", ":", " ", "1", "}">>
sOcrNull    == <<"{", "\"", "o", "c", "r", "_", "t", "e", "x", "t", "\"", ":", " ",
                 "n", "u", "l", "l", "}">>

\* contents of chunks handed to _prepare_context: plain text, the empty text
\* of an empty file, a YouTube transcript, image records with and without
\* OCR text, records without an OCR text or with one that is not a str
AssemblerContents ==
    { sCat, << >>, YoutubeItems[1].v, JsonDumps(ImageRecord(<< >>)),
      JsonDumps(ImageRecord(sCAT)), sNoOcr, sOcrNull }

\* the chunks: dicts with a filename, and one without
AssemblerChunks ==
    { [filename |-> <<"g", ".", "t", "x", "t">>, content |-> c] : c \in AssemblerContents }
      \cup { [content |-> sCat] }

\* lines 158-176: every chunk of the list is shown
ViewContext ==
    /\ pc \in {"ASSEMBLE", "GENERATE"}
    /\ shown = << >>
    /\ relevant_chunks # << >>
    /\ shown' = [i \in 1..Len(relevant_chunks) |-> ViewText(relevant_chunks[i].content)]
    /\ UNCHANGED << storeVars, ing, queryVars, seg >>

AssembleInit ==
    /\ files = << >>
    /\ chunks = << >>
    /\ queries = << >>
    /\ sequence = [files |-> 0, chunks |-> 0]
    /\ ing = [c \in Callers |-> IngIdle("none")]
    /\ pc = "ASSEMBLE"
    /\ path = << "START", "RETRIEVE" >>
    /\ user_query = sCat
    /\ limit = QueryLimit
    /\ all_chunks = << >>
    /\ \E n \in 0..MaxContextChunks : relevant_chunks \in [1..n -> AssemblerChunks]
    /\ context = << >>
    /\ backend_calls = << >>
    /\ backend = NoBackend
    /\ result = NoResult
    /\ seg = SegIdle
    /\ shown = << >>

AssembleNext == Assemble \/ ViewContext

AssembleSpec == AssembleInit /\ [][AssembleNext]_vars

(***************************************************************************)
(* Specification: _split_text applied to a text, a chunk_size and an       *)
(* overlap drawn from the pools, one loop iteration per step               *)
(***************************************************************************)

\* lines 112-120: a blank text returns at once; otherwise the text is
\* cleaned and the loop is entered with start = 0, chunk_index = 0
SplitEnter ==
    /\ seg.pc = "enter"
    /\ seg' = IF IsBlank(seg.input)
              THEN [seg EXCEPT !.pc = "returned",
                               !.ret = << [content |-> << >>, metadata |-> EmptyMetadata] >>]
              ELSE [seg EXCEPT !.pc = "loop", !.text = CleanText(seg.input)]
    /\ UNCHANGED << storeVars, ing, queryVars, shown >>

\* one iteration of the loop of lines 122-151
SplitIterate ==
    /\ seg.pc = "loop"
    /\ seg.start < Len(seg.text)
    /\ LET end        == ChunkEnd(seg.text, seg.chunk_size, seg.start)
           chunk_text == Strip(PySlice(seg.text, seg.start, end))
       IN  seg' = [seg EXCEPT !.end = end,
                              !.chunks = Emit(seg.chunks, chunk_text, seg.chunk_index,
                                              seg.start, end),
                              !.chunk_index = IF chunk_text # << >> THEN @ + 1 ELSE @,
                              !.start = NextStart(seg.start, end, seg.overlap)]
    /\ UNCHANGED << storeVars, ing, queryVars, shown >>

\* lines 122 and 153: the loop condition fails and the chunks are returned
SplitReturn ==
    /\ seg.pc = "loop"
    /\ seg.start >= Len(seg.text)
    /\ seg' = [seg EXCEPT !.pc = "returned",
                          !.ret = ReturnedChunks(seg.chunks, seg.text)]
    /\ UNCHANGED << storeVars, ing, queryVars, shown >>

SplitInit ==
    /\ files = << >>
    /\ chunks = << >>
    /\ queries = << >>
    /\ sequence = [files |-> 0, chunks |-> 0]
    /\ ing = [c \in Callers |-> IngIdle("none")]
    /\ pc = "IDLE"
    /\ path = << >>
    /\ user_query = << >>
    /\ limit = QueryLimit
    /\ all_chunks = << >>
    /\ relevant_chunks = << >>
    /\ context = << >>
    /\ backend_calls = << >>
    /\ backend = NoBackend
    /\ result = NoResult
    /\ \E text \in SplitTexts : \E chunk_size \in ChunkSizes : \E overlap \in Overlaps :
          seg = SegCall(text, chunk_size, overlap)
    /\ shown = << >>

SplitNext == SplitEnter \/ SplitIterate \/ SplitReturn

SplitSpec == SplitInit /\ [][SplitNext]_vars

\* the call runs on its own thread of control: a step that can be taken is
\* taken
SplitLiveSpec == SplitInit /\ [][SplitNext]_vars /\ WF_vars(SplitNext)

(***************************************************************************)
(* Specification: one store shared by concurrent callers (the sessions of  *)
(* app.py, spec.md 5).  Every store operation is one atomic statement or   *)
(* transaction; the calls of process_file and process_youtube of the       *)
(* callers and clear_all_data interleave between any two of them.          *)
(***************************************************************************)

\* files the callers upload: a text file of two chunks and a file of an
\* unsupported type
SharedNames == { <<"g", ".", "t", "x", "t">>, <<"z", ".", "b", "i", "n">> }

\* what the extractor of an uploaded file does
SharedOutcomes(file_type) ==
    CASE file_type = "text" -> { Extracted(<< Str(sCat), Str(sCatSat) >>) }
      [] file_type = "youtube" -> { Extracted(<< Str(YoutubeContent(<<"T">>, << >>, sCat)) >>) }
      [] OTHER -> { Extracted(<< >>) }

SharedNext ==
    \/ \E c \in Callers : \E f \in SharedNames :
       \E o \in SharedOutcomes(GetFileType(f)) :
          /\ sequence.files < MaxSharedFiles
          /\ ProcessFileStart(c, f, o)
    \/ \E c \in Callers : \E u \in YoutubeUrls : \E o \in SharedOutcomes("youtube") :
          /\ sequence.files < MaxSharedFiles
          /\ ProcessYoutubeStart(c, u, o)
    \/ \E c \in Callers : StoreChunk(c)
    \/ \E c \in Callers : FinishFile(c)
    \/ \E c \in Callers : FailFile(c)
    \/ ClearAllData

SharedSpec == Init /\ [][SharedNext]_vars

(***************************************************************************)
(* Specification: the queries of one caller interleaved with the uploads   *)
(* of another, with clear_all_data and with delete_query_history           *)
(***************************************************************************)

\* what generate_content does for the queries
AskBackend ==
    { [kind |-> "response", err |-> << >>,
       response |-> Response("ok", sAns, TRUE, << [parts |-> << sCat >>] >>)] }

AskNext ==
    \/ \E f \in SharedNames : \E o \in SharedOutcomes(GetFileType(f)) :
          /\ sequence.files < MaxFiles
          /\ ProcessFileStart(1, f, o)
    \/ StoreChunk(1)
    \/ FinishFile(1)
    \/ FailFile(1)
    \/ ClearAllData
    \/ DeleteQueryHistory
    \/ \E q \in { sCat, << >> } :
          /\ Len(queries) < MaxSharedLog
          /\ QueryStart(q)
    \/ Retrieve
    \/ Assemble
    \/ \E out \in AskBackend : Generate(out)
    \/ SaveQuery

AskSpec == Init /\ [][AskNext]_vars

(***************************************************************************)
(* Specification: query_with_images on a store, a query and a response of  *)
(* the backend drawn from the pools; the store does not change and does    *)
(* not fail during the call                                                *)
(***************************************************************************)

\* stored contents: text, a serialised image record with OCR text, one
\* without, and a text chunk that is JSON with a number for ocr_text
ImagesContents ==
    { [content |-> sCat, content_type |-> "text"],
      [content |-> sOcr5, content_type |-> "text"],
      [content |-> JsonDumps(ImageRecord(sCAT)), content_type |-> "image"],
      [content |-> JsonDumps(ImageRecord(<< >>)), content_type |-> "image"] }

\* queries with and without a word of line 193
ImagesQueries ==
    { sCat, <<"w", "h", "a", "t", " ", "c", "a", "t">>,
      <<"D", "e", "s", "c", "r", "i", "b", "e">>, << >> }

ImagesInit ==
    /\ \E n \in 0..MaxRankChunks :
       \E owner \in [1..n -> 1..MaxRankFiles] :
       \E cont \in [1..n -> ImagesContents] :
          /\ \A i, j \in 1..n :
                (owner[i] = owner[j] /\ i # j) =>
                    /\ cont[i].content_type = cont[j].content_type
                    /\ cont[i].content_type # "image"
          /\ files = [f \in 1..MaxRankFiles |-> RankFile(f, owner, cont)]
          /\ chunks = [i \in 1..n |-> RankChunk(i, owner, cont)]
          /\ sequence = [files |-> MaxRankFiles, chunks |-> n]
    /\ queries = << >>
    /\ ing = [c \in Callers |-> IngIdle("none")]
    /\ pc = "IMAGES"
    /\ path = << >>
    /\ user_query \in ImagesQueries
    /\ limit = QueryLimit
    /\ all_chunks = << >>
    /\ relevant_chunks = << >>
    /\ context = << >>
    /\ backend_calls = << >>
    /\ backend = NoBackend
    /\ result = NoResult
    /\ seg = SegIdle
    /\ shown = << >>

ImagesNext ==
    \/ \E out \in AskBackend : QueryWithImages(out)
    \/ Retrieve
    \/ Assemble
    \/ \E out \in BackendOutcomes : Generate(out)

ImagesSpec == ImagesInit /\ [][ImagesNext]_vars

(***************************************************************************)
(* Properties of the ranker (RankSpec)                                     *)
(***************************************************************************)

\* the retrieval of the call in progress has returned
Retrieved == pc \in {"ASSEMBLE", "GENERATE"} \/ (pc = "RETURNED" /\ path # << "START", "RETRIEVE" >>)

\* w occurs in t at some offset
OccursIn(w, t) ==
    \E k \in 1..(Len(t) - Len(w) + 1) : \A m \in 1..Len(w) : t[k + m - 1] = w[m]

\* the distinct words of q: the maximal whitespace-free runs of lower-cased q
WordsOf(q) ==
    LET lq == Lower(q)
    IN  { SubSeq(lq, i, j) : <<i, j>> \in
            { p \in (1..Len(q)) \X (1..Len(q)) :
                /\ p[1] <= p[2]
                /\ \A k \in p[1]..p[2] : ~IsSpace(lq[k])
                /\ (p[1] = 1 \/ IsSpace(lq[p[1] - 1]))
                /\ (p[2] = Len(q) \/ IsSpace(lq[p[2] + 1])) } }

\* the text the consumers derive from a stored content, before lower-casing:
\* the OCR text of a decoded record, else the str of what was decoded
DerivedText(content) ==
    LET c == DecodeContent(content)
    IN  IF c.t = "dict" THEN PyStr(GetOcrText(c.v)) ELSE PyStr(c)

\* the score the ranker computes for a chunk
ScoreOf(chunk) == Score(user_query, RankerText(chunk.content).text)

UpperLetters ==
    {"A", "B", "C", "D", "E", "F", "G", "H", "I", "J", "K", "L", "M", "N", "O", "P",
     "Q", "R", "S", "T", "U", "V", "W", "X", "Y", "Z"}

UpperChar(c) ==
    IF \E u \in UpperLetters : LowerChar(u) = c
    THEN CHOOSE u \in UpperLetters : LowerChar(u) = c ELSE c

Upper(s) == [i \in 1..Len(s) |-> UpperChar(s[i])]

\* the scores the ranker computes for the enumerated chunks, by position
Scores == [i \in 1..Len(all_chunks) |-> ScoreOf(all_chunks[i])]

\* the lower-cased derived texts of the enumerated chunks, by position
Texts == [i \in 1..Len(all_chunks) |-> Lower(DerivedText(all_chunks[i].content))]

\* position of a returned chunk in the enumeration of the store
PosOf(chunk) == CHOOSE i \in 1..Len(all_chunks) : all_chunks[i].id = chunk.id

\* C1: the score of every stored chunk is the number of distinct lower-cased
\* whitespace-separated query words that occur as a substring of the chunk's
\* lower-cased text; it is the same for the upper-cased query, and the same
\* for two chunks whose texts differ only in letter case.
C1_ScoreIsDistinctWordCount ==
    Retrieved =>
        LET rt    == [i \in 1..Len(all_chunks) |-> RankerText(all_chunks[i].content).text]
            sc    == [i \in 1..Len(all_chunks) |-> Score(user_query, rt[i])]
            tx    == Texts
            words == WordsOf(user_query)
            uq    == Upper(user_query)
        IN  \A i \in 1..Len(all_chunks) :
               /\ sc[i] = Cardinality({w \in words : OccursIn(w, tx[i])})
               /\ Score(uq, rt[i]) = sc[i]
               /\ \A j \in 1..Len(all_chunks) : tx[j] = tx[i] => sc[j] = sc[i]

\* a query of three words, one repeated in another letter case and one a
\* part of it, scored 2 on a chunk that holds the word in mixed-case text
C1_Witness ==
    /\ Retrieved
    /\ user_query = <<"C", "A", "T", " ", "a", "t", " ", "c", "a", "t">>
    /\ \E i \in 1..Len(relevant_chunks) :
          relevant_chunks[i].content = sCatSat /\ ScoreOf(relevant_chunks[i]) = 2

\* C2: the returned chunks are in score-descending order, equal scores in the
\* order of the store's enumeration, which is by file id then chunk index; so
\* for limit >= 1 the first chunk returned is the earliest enumerated chunk of
\* maximal score, in particular a chunk containing every query word when no
\* chunk scores higher.
C2_OrderedByScoreStable ==
    Retrieved =>
        LET sc  == Scores
            pos == [i \in 1..Len(relevant_chunks) |-> PosOf(relevant_chunks[i])]
        IN  /\ \A i, j \in 1..Len(all_chunks) :
                  i < j => \/ all_chunks[i].file_id < all_chunks[j].file_id
                           \/ /\ all_chunks[i].file_id = all_chunks[j].file_id
                              /\ all_chunks[i].chunk_index < all_chunks[j].chunk_index
            /\ \A i, j \in 1..Len(relevant_chunks) :
                  i < j => \/ sc[pos[i]] > sc[pos[j]]
                           \/ sc[pos[i]] = sc[pos[j]] /\ pos[i] < pos[j]
            /\ \A k \in 1..Len(all_chunks) :
                  (/\ limit >= 1
                   /\ sc[k] > 0
                   /\ sc[k] = Cardinality(WordsOf(user_query))
                   /\ \A m \in 1..(k - 1) : sc[m] < sc[k])
                      => /\ relevant_chunks # << >>
                         /\ relevant_chunks[1].id = all_chunks[k].id

\* two chunks of equal score returned in enumeration order although the
\* second was inserted into the store first
C2_Witness ==
    /\ Retrieved
    /\ Len(relevant_chunks) >= 2
    /\ ScoreOf(relevant_chunks[1]) = ScoreOf(relevant_chunks[2])
    /\ relevant_chunks[1].id > relevant_chunks[2].id
    /\ Cardinality(WordsOf(user_query)) = 2

\* C3: for limit >= 0 the result is the first `limit` positive-score chunks of
\* the ranking: no chunk of score 0, min(limit, number of positive chunks)
\* entries, and no chunk left out ranks before a returned one.
C3_FirstLimitOfPositive ==
    Retrieved =>
        LET sc       == Scores
            pos      == [i \in 1..Len(relevant_chunks) |-> PosOf(relevant_chunks[i])]
            positive == {k \in 1..Len(all_chunks) : sc[k] > 0}
            returned == {pos[i] : i \in 1..Len(relevant_chunks)}
        IN  /\ \A i \in 1..Len(relevant_chunks) :
                  relevant_chunks[i] = all_chunks[pos[i]] /\ sc[pos[i]] > 0
            /\ Len(relevant_chunks) <= limit
            /\ Cardinality(returned) = Len(relevant_chunks)
            /\ Len(relevant_chunks) =
                  (IF Cardinality(positive) < limit THEN Cardinality(positive) ELSE limit)
            /\ \A k \in positive \ returned : \A r \in returned :
                  sc[r] > sc[k] \/ (sc[r] = sc[k] /\ r < k)

\* more positive chunks than the limit: the result is cut to the limit
C3_Witness ==
    /\ Retrieved
    /\ limit >= 1
    /\ Cardinality({k \in 1..Len(all_chunks) : ScoreOf(all_chunks[k]) > 0}) > limit
    /\ Len(relevant_chunks) = limit

\* C4 as stated: for a query without words (empty or whitespace only) the
\* ranker returns an empty sequence for every store, and for an empty store it
\* returns an empty sequence for every query.
C4_Original ==
    (pc # "RETRIEVE" /\ path # << >>) =>
        /\ (\A i \in 1..Len(user_query) : IsSpace(user_query[i]))
              => (Retrieved /\ relevant_chunks = << >>)
        /\ all_chunks = << >> => (Retrieved /\ relevant_chunks = << >>)

(***************************************************************************)
(* Properties of query (Spec)                                              *)
(***************************************************************************)

\* a query call is in progress or has just returned
InCall == pc \in {"RETRIEVE", "ASSEMBLE", "GENERATE", "RETURNED"}

ErrorPrefixes ==
    { ModelErrorPrefix[1], ApiKeyErrorPrefix[1], ApiErrorPrefix[1],
      "Configuration error: ", "Error processing query: " }

\* C5: when retrieval returns no chunk the call never reaches the backend and
\* returns the fixed no-information message, a non-empty string that is not
\* one of the error messages; this is what happens for an empty store, for a
\* query without words and for a store no chunk of which holds a query word.
C5_NoMatchNoBackend ==
    /\ (InCall /\ Retrieved /\ relevant_chunks = << >>) =>
          /\ backend_calls = << >>
          /\ backend.kind = "none"
          /\ pc = "RETURNED"
          /\ result = [kind |-> "str", val |-> NoInfoMessage]
          /\ Len(result.val) > 0
          /\ result.val[1] \notin ErrorPrefixes
    /\ (InCall /\ Retrieved) =>
          ((\/ all_chunks = << >>
            \/ WordsOf(user_query) = {}
            \/ \A i \in 1..Len(all_chunks) : \A w \in WordsOf(user_query) :
                  ~OccursIn(w, Texts[i]))
              => relevant_chunks = << >>)

\* a question with words asked of a store with chunks none of which holds a
\* word of it: the call has returned the message
C5_Witness ==
    /\ pc = "RETURNED"
    /\ Retrieved
    /\ relevant_chunks = << >>
    /\ all_chunks # << >>
    /\ user_query = <<"d", "o", "g">>
    /\ result.val = NoInfoMessage

\* C6: query returns a str on every path and never lets an exception out:
\* a failure of generate_content and a failure of the store read both end in
\* a returned message.
C6_AlwaysReturnsString ==
    /\ result.kind \in {"none", "str"}
    /\ pc = "RETURNED" => (result.kind = "str" /\ Len(result.val) > 0)
    /\ (pc = "RETURNED" /\ backend.kind = "raise") =>
          (result.kind = "str" /\ result.val[1] \in ErrorPrefixes)
    /\ (pc = "RETURNED" /\ path = << "START", "RETRIEVE" >>) =>
          (result.kind = "str" /\ result.val[1] \in ErrorPrefixes)

\* the store read raised and the call returned a message
C6_Witness ==
    /\ pc = "RETURNED"
    /\ path = << "START", "RETRIEVE" >>
    /\ files # << >>
    /\ result = [kind |-> "str", val |-> OuterHandler(<<"l", "o", "c", "k", "e", "d">>)]

\* the backend call raised
BackendRaised == pc = "RETURNED" /\ backend.kind = "raise"

MatchesUnavailable(e) == OccursIn(s404, e) \/ OccursIn(sNotFound, Lower(e))
MatchesAuth(e) == OccursIn(s403, e) \/ OccursIn(sPermission, Lower(e))

\* C7 as stated: every backend failure whose error text contains "403" gets
\* the API-key message; failures matching no category get the generic one.
C7_Original ==
    BackendRaised =>
        /\ OccursIn(s403, backend.err) => result.val = ApiKeyErrorPrefix \o backend.err
        /\ (~MatchesUnavailable(backend.err) /\ ~MatchesAuth(backend.err))
               => result.val = ApiErrorPrefix \o backend.err

\* C7 amended: a backend failure whose error text contains "403" and neither
\* "404" nor, ignoring case, "not found" gets the API-key message; a failure
\* whose text contains "404" gets the model-unavailable message, which is a
\* different one; failures matching no category get the generic message.
C7_Classification ==
    BackendRaised =>
        /\ (OccursIn(s403, backend.err) /\ ~MatchesUnavailable(backend.err))
               => result.val = ApiKeyErrorPrefix \o backend.err
        /\ OccursIn(s404, backend.err) => result.val = ModelErrorPrefix \o backend.err
        /\ ModelErrorPrefix # ApiKeyErrorPrefix
        /\ (~MatchesUnavailable(backend.err) /\ ~MatchesAuth(backend.err))
               => result.val = ApiErrorPrefix \o backend.err

\* a failure with "403" in its text was answered with the API-key message
C7_Witness ==
    /\ BackendRaised
    /\ OccursIn(s403, backend.err)
    /\ result.val = ApiKeyErrorPrefix \o backend.err

\* what the claim expects from a response: the text field, else the first
\* part of the first candidate, else the stringified response
ExpectedAnswer(r) ==
    IF r.text.kind = "ok" THEN r.text.val
    ELSE IF r.candidates.has /\ r.candidates.val # << >>
            /\ r.candidates.val[1].parts # << >>
         THEN r.candidates.val[1].parts[1]
    ELSE sResponseRepr

\* C8 as stated: once generate_content has returned a response, query returns
\* the answer taken from the first shape that matches, or the stringified
\* response, and never an error outcome.
C8_Original ==
    (pc = "RETURNED" /\ backend.kind = "response") =>
        /\ path[Len(path)] = "SUCCESS"
        /\ result.val = ExpectedAnswer(backend.response)

MachinePaths ==
    { << "START", "RETRIEVE", "NO_MATCH" >>,
      << "START", "RETRIEVE", "ASSEMBLE", "GENERATE", "SUCCESS" >>,
      << "START", "RETRIEVE", "ASSEMBLE", "GENERATE", "BACKEND_ERROR" >> }

IsPrefix(p, q) == Len(p) <= Len(q) /\ SubSeq(q, 1, Len(p)) = p

\* the stages in path
Stages == {path[i] : i \in 1..Len(path)}

IsRecord(content) == DecodeContent(content).t = "dict"

\* C10 as stated: a stored content that does not decode to a record is used
\* unchanged by the ranker (which lower-cases it for matching) and by the
\* assembler (which puts it into the chunk's block).
C10_Original ==
    /\ Retrieved =>
          \A i \in 1..Len(all_chunks) :
             ~IsRecord(all_chunks[i].content) =>
                 /\ RankerText(all_chunks[i].content).text = Lower(all_chunks[i].content)
                 /\ ContextText(all_chunks[i].content) = all_chunks[i].content
    /\ pc = "GENERATE" =>
          context = Join([i \in 1..Len(relevant_chunks) |->
                            <<"Document: ">> \o relevant_chunks[i].filename
                            \o <<"\n", "Content:", "\n">>
                            \o (IF IsRecord(relevant_chunks[i].content)
                                THEN ContextText(relevant_chunks[i].content)
                                ELSE relevant_chunks[i].content)
                            \o <<"\n">>],
                         Separator)

(***************************************************************************)
(* Properties of _split_text (SplitSpec, SplitLiveSpec)                    *)
(***************************************************************************)

\* a step that runs one iteration of the loop
IsIteration == seg.pc = "loop" /\ seg.start < Len(seg.text) /\ seg' # seg

\* C16: _split_text terminates for every text, chunk_size and overlap, also
\* with overlap >= chunk_size and chunk_size <= 0: every loop iteration
\* strictly increases start, to max(start + 1, end - overlap), the loop ends
\* once start >= len(text), and the call returns.
C16_SplitTerminates ==
    /\ [][IsIteration =>
            /\ seg'.pc = "loop"
            /\ seg'.start > seg.start
            /\ seg'.start >= seg.start + 1
            /\ seg'.start >= seg'.end - seg.overlap
            /\ seg'.start \in { seg.start + 1, seg'.end - seg.overlap }]_vars
    /\ [][(seg.pc = "loop" /\ seg.start >= Len(seg.text)) => seg'.pc = "returned"]_vars
    /\ <>(seg.pc = "returned")

\* a call with chunk_size <= 0 and overlap >= chunk_size has gone round the
\* loop three times or more and returned
C16_Witness ==
    /\ seg.pc = "returned"
    /\ seg.chunk_size <= 0
    /\ seg.overlap >= seg.chunk_size
    /\ Len(seg.text) >= 3
    /\ seg.start >= Len(seg.text)

SentenceMarks == {".", "!", "?", "\n"}

\* offsets of the sentence marks of text inside [start, start + chunk_size)
\* that lie strictly after start
MarksAfter(text, start, chunk_size) ==
    {i \in (start + 1)..(start + chunk_size - 1) :
        i >= 0 /\ i < Len(text) /\ text[i + 1] \in SentenceMarks}

\* end is one past the rightmost such mark, or start + chunk_size without one
BoundaryRule(text, start, chunk_size, end) ==
    LET after == MarksAfter(text, start, chunk_size)
    IN  IF after # {} THEN \E m \in after : (\A j \in after : j <= m) /\ end = m + 1
        ELSE end = start + chunk_size

\* C17 as stated, of the calls with chunk_size >= 1: for every window
\* [start, start + chunk_size) the loop examines, the last window of the text
\* included, the chunk ends one past the rightmost '.', '!', '?' or newline
\* of the window lying strictly after start, and at start + chunk_size when
\* there is none.
C17_Original ==
    [][(IsIteration /\ seg.chunk_size >= 1) =>
          BoundaryRule(seg.text, seg.start, seg.chunk_size, seg'.end)]_vars

\* C17, amended: the rule holds, for chunk_size >= 0, of every window that
\* ends before the end of the text (start + chunk_size < len(text)); a window
\* that reaches the end of the text is not searched and ends at
\* start + chunk_size.
C17_BoundaryBeforeTextEnd ==
    [][(IsIteration /\ seg.chunk_size >= 0) =>
          IF seg.start + seg.chunk_size < Len(seg.text)
          THEN BoundaryRule(seg.text, seg.start, seg.chunk_size, seg'.end)
          ELSE seg'.end = seg.start + seg.chunk_size]_vars

\* a chunk was cut at a sentence mark before its window was full, and a later
\* window reached the end of the text
C17_Witness ==
    /\ seg.pc = "returned"
    /\ seg.chunk_size >= 2
    /\ Len(seg.ret) >= 2
    /\ seg.ret[1].metadata.end_pos < seg.ret[1].metadata.start_pos + seg.chunk_size
    /\ seg.text[seg.ret[1].metadata.end_pos] \in SentenceMarks
    /\ seg.end >= Len(seg.text)

\* C18: for chunk_size >= 1 and overlap >= 0, consecutive emitted chunks
\* overlap by at most overlap characters (end_pos of chunk i minus start_pos
\* of chunk i + 1 is <= overlap), and every non-whitespace character of the
\* whitespace-normalised text lies in the range [start_pos, end_pos) of some
\* emitted chunk, whose content is that range of the text, stripped.
C18_OverlapAndCoverage ==
    (seg.pc = "returned" /\ seg.chunk_size >= 1 /\ seg.overlap >= 0) =>
        /\ \A i \in 1..(Len(seg.ret) - 1) :
              seg.ret[i].metadata.end_pos - seg.ret[i + 1].metadata.start_pos <= seg.overlap
        /\ \A k \in 0..(Len(seg.text) - 1) :
              ~IsSpace(seg.text[k + 1]) =>
                  \E i \in 1..Len(seg.ret) :
                      /\ seg.ret[i].metadata.start_pos <= k
                      /\ k < seg.ret[i].metadata.end_pos
        /\ ~IsBlank(seg.input) =>
              \A i \in 1..Len(seg.ret) :
                  /\ seg.ret[i].metadata.start_pos >= 0
                  /\ seg.ret[i].metadata.start_pos < seg.ret[i].metadata.end_pos
                  /\ seg.ret[i].content =
                        Strip(SubSeq(seg.text, seg.ret[i].metadata.start_pos + 1,
                                     IF seg.ret[i].metadata.end_pos > Len(seg.text)
                                     THEN Len(seg.text) ELSE seg.ret[i].metadata.end_pos))

\* three chunks were emitted, two consecutive ones sharing exactly overlap
\* characters with overlap >= 1, out of a text whose whitespace was collapsed
C18_Witness ==
    /\ seg.pc = "returned"
    /\ seg.chunk_size >= 2
    /\ seg.overlap >= 1
    /\ Len(seg.ret) >= 3
    /\ seg.text # seg.input
    /\ \E i \in 1..(Len(seg.ret) - 1) :
          seg.ret[i].metadata.end_pos - seg.ret[i + 1].metadata.start_pos = seg.overlap

\* the returned chunks all carry non-empty content and the chunk_index
\* metadata 0, 1, 2, ... in emission order
NumberedChunks(ret) ==
    \A i \in 1..Len(ret) :
        /\ ret[i].content # << >>
        /\ "chunk_index" \in DOMAIN ret[i].metadata
        /\ ret[i].metadata.chunk_index = i - 1

\* exactly one chunk, with empty content and empty metadata
OneEmptyChunk(ret) ==
    /\ Len(ret) = 1
    /\ ret[1].content = << >>
    /\ DOMAIN ret[1].metadata = {}

\* C19 as stated: on empty or whitespace-only input _split_text returns
\* exactly one chunk with empty content and empty metadata; on any other
\* input every returned chunk has non-empty content and chunk_index metadata
\* numbered 0, 1, 2, ... in emission order.
C19_Original ==
    seg.pc = "returned" =>
        IF IsBlank(seg.input) THEN OneEmptyChunk(seg.ret) ELSE NumberedChunks(seg.ret)

\* C19, amended: the same, the second half for chunk_size >= 1.
C19_EmptyOrNumbered ==
    seg.pc = "returned" =>
        IF IsBlank(seg.input) THEN OneEmptyChunk(seg.ret)
        ELSE seg.chunk_size >= 1 => NumberedChunks(seg.ret)

\* a call with chunk_size >= 1 returned three numbered chunks
C19_Witness ==
    /\ seg.pc = "returned"
    /\ seg.chunk_size >= 1
    /\ Len(seg.ret) = 3
    /\ seg.ret[3].metadata.chunk_index = 2

(***************************************************************************)
(* Properties of ingestion (IngestSpec)                                    *)
(***************************************************************************)

\* the text an extracted item carries: the OCR text of an image record, the
\* text itself otherwise
ItemText(item) == IF item.t = "dict" THEN GetOcrText(item.v).v ELSE item.v

\* s ends with e
EndsWith(s, e) == Len(e) <= Len(s) /\ SubSeq(s, Len(s) - Len(e) + 1, Len(s)) = e

\* C11: the content process_file stores for an image record is a string
\* that decodes back to a record, and the texts the ranker and the assembler
\* derive from the stored string are the record's OCR text t: the ranker
\* scores lower-cased t, the assembler renders t (and its placeholder for the
\* empty t).
C11_ImageRoundTrip ==
    [][\A c \in Callers :
          (ing[c].pc = "store" /\ ing[c].pending # << >> /\ Head(ing[c].pending).t = "dict"
              /\ ing'[c].idx = ing[c].idx + 1) =>
            LET t      == ItemText(Head(ing[c].pending))
                stored == chunks'[Len(chunks')].content
            IN  /\ DecodeContent(stored) = Head(ing[c].pending)
                /\ DerivedText(stored) = t
                /\ RankerText(stored) = [ok |-> TRUE, text |-> Lower(t)]
                /\ ContextText(stored) = IF t = << >> THEN ImagePlaceholder ELSE t]_vars

\* an image chunk is stored whose OCR text holds a double quote and a
\* backslash
C11_Witness ==
    \E i \in 1..Len(chunks) :
        /\ chunks[i].content_type = "image"
        /\ DerivedText(chunks[i].content) = <<"a", "\"", "\\", "b">>
        /\ \E c \in Callers : ing[c].pc = "store" /\ ing[c].file_id = chunks[i].file_id

Assembled == pc = "GENERATE"

\* the content decodes to a structured record without an OCR-text field
LacksOcrText(content) ==
    /\ IsRecord(content)
    /\ ~DictHas(DecodeContent(content).v, <<"o", "c", "r", "_", "t", "e", "x", "t">>)

\* the text of the block the assembler rendered for a chunk: what stands
\* between "Content:\n" and the closing newline
RenderedText(chunk) ==
    LET block == ContextPart(chunk)
        head  == Len(Filename(chunk)) + 4
    IN  SubSeq(block, head + 1, Len(block) - 1)

\* C12 as stated: for content that decodes to a structured record lacking an
\* OCR-text field, the canonical text is one fixed placeholder, the same in
\* the ranker (which lower-cases it), the assembler and the UI context view.
C12_Original ==
    (Assembled /\ shown # << >>) =>
        \A i \in 1..Len(relevant_chunks) :
            LacksOcrText(relevant_chunks[i].content) =>
                /\ RenderedText(relevant_chunks[i]) # << >>
                /\ shown[i] = RenderedText(relevant_chunks[i])
                /\ RankerText(relevant_chunks[i].content).ok
                /\ RankerText(relevant_chunks[i].content).text
                      \in { shown[i], Lower(shown[i]) }

\* the block expected for a chunk: label, then the text
ExpectedBlock(chunk, text) ==
    << "Document: " >>
        \o (IF "filename" \in DOMAIN chunk THEN chunk.filename ELSE << "Unknown" >>)
        \o << "\n", "Content:", "\n" >> \o text \o << "\n" >>

\* the blocks, joined by the separator line, in the order of the chunks
RECURSIVE JoinedBlocks(_, _)
JoinedBlocks(blocks, i) ==
    IF i > Len(blocks) THEN << >>
    ELSE blocks[i] \o (IF i < Len(blocks) THEN << "\n", "-", "-", "-", "\n" >> ELSE << >>)
            \o JoinedBlocks(blocks, i + 1)

FalsyOcrText(content) ==
    IsRecord(content) /\ ~Truthy(GetOcrText(DecodeContent(content).v))

RECURSIVE SplitOn(_, _)
SplitOn(s, sep) ==
    LET at == {k \in 1..(Len(s) - Len(sep) + 1) : SubSeq(s, k, k + Len(sep) - 1) = sep}
    IN  IF at = {} THEN << s >>
        ELSE LET k == CHOOSE m \in at : \A j \in at : m <= j
             IN  << SubSeq(s, 1, k - 1) >> \o SplitOn(SubSeq(s, k + Len(sep), Len(s)), sep)

\* C14 as stated: the separator line is distinct from any content text:
\* for every sequence of chunks, splitting the assembled context on the
\* separator yields as many blocks as chunks, each the block rendered for
\* the corresponding chunk.
C14_Original ==
    (Assembled /\ relevant_chunks # << >>) =>
        LET blocks == SplitOn(context, Separator)
        IN  /\ Len(blocks) = Len(relevant_chunks)
            /\ \A i \in 1..Len(blocks) : blocks[i] = ContextPart(relevant_chunks[i])

(***************************************************************************)
(* Frame of query (Spec)                                                   *)
(***************************************************************************)

\* C15: a call of query, whatever its outcome, leaves the file records, the
\* chunks and the query log unchanged; the log entry is appended by the
\* caller, exactly one after each call, holding the query text and the
\* returned response, and the log changes at no other step.
C15_QueryLeavesStore ==
    /\ [][pc' # "IDLE" => UNCHANGED << files, chunks, queries >>]_vars
    /\ [][(pc = "RETURNED" /\ pc' = "IDLE") =>
             /\ result.kind = "str"
             /\ queries' = Append(queries, [query_text |-> user_query,
                                            response_text |-> result.val])
             /\ UNCHANGED << files, chunks >>]_vars
    /\ [][queries' # queries => (pc = "RETURNED" /\ pc' = "IDLE")]_vars

\* the caller has logged a call on a store with chunks that the backend
\* answered, and the store still holds its chunks
C15_Witness ==
    /\ pc = "IDLE"
    /\ chunks # << >>
    /\ Len(queries) = 1
    /\ queries[1].query_text = sCat
    /\ queries[1].response_text = sAns

(***************************************************************************)
(* Properties of the shared store (SharedSpec, AskSpec)                    *)
(***************************************************************************)

\* the records of table files with an id, the positions of the rows of
\* table chunks of a file
RecordsOf(fs, id) == {i \in 1..Len(fs) : fs[i].id = id}
RowsOf(cs, id) == {i \in 1..Len(cs) : cs[i].file_id = id}

\* the file has a record whose processed flag is set
IsProcessed(fs, id) == \E i \in RecordsOf(fs, id) : fs[i].processed

NoRecordDeleted == sequence.files = Len(files)

\* C22: as long as no record has been deleted, the n-th row stored for a
\* file carries chunk_index n - 1, whatever rows of other files were stored
\* in between; the id a call stores under is the id of the record its own
\* add_file created, it keeps it while it stores, and every row is written
\* by a call under that id with the call's running index.
C22_IndicesPerFile ==
    /\ [](NoRecordDeleted =>
             \A k \in 1..Len(chunks) :
                 chunks[k].chunk_index =
                     Cardinality({m \in 1..(k - 1) : chunks[m].file_id = chunks[k].file_id}))
    /\ [][\A c \in Callers :
             (ing[c].pc = "idle" /\ ing'[c] # ing[c]) =>
                /\ Len(files') = Len(files) + 1
                /\ ing'[c].file_id = files'[Len(files')].id
                /\ RecordsOf(files, ing'[c].file_id) = {}
                /\ \A d \in Callers : d # c /\ ing[d].pc = "store" =>
                                            ing[d].file_id # ing'[c].file_id]_vars
    /\ [][\A c \in Callers :
             (ing[c].pc = "store" /\ ing'[c].pc = "store") =>
                ing'[c].file_id = ing[c].file_id]_vars
    /\ [][Len(chunks') > Len(chunks) =>
             /\ Len(chunks') = Len(chunks) + 1
             /\ \E c \in Callers :
                   /\ ing[c].pc = "store"
                   /\ ing'[c].idx = ing[c].idx + 1
                   /\ chunks'[Len(chunks')].file_id = ing[c].file_id
                   /\ chunks'[Len(chunks')].chunk_index = ing[c].idx]_vars

\* the rows of two files alternate in the table: each file has its rows
\* numbered 0 and 1
C22_Witness ==
    /\ NoRecordDeleted
    /\ Len(chunks) = 4
    /\ chunks[1].file_id # chunks[2].file_id
    /\ chunks[3].file_id = chunks[1].file_id /\ chunks[3].chunk_index = 1
    /\ chunks[4].file_id = chunks[2].file_id /\ chunks[4].chunk_index = 1

\* the log after the step starts with the log before it
LogExtended == Len(queries') >= Len(queries) /\ SubSeq(queries', 1, Len(queries)) = queries

\* a retrieval step reads table chunks (joined with files) and nothing of
\* the log: what it retrieves are rows of chunks, what it ranks is retrieved
RetrievalReadsChunksOnly ==
    (pc = "RETRIEVE" /\ pc' # "RETRIEVE") =>
        /\ \A i \in 1..Len(all_chunks') :
              \E k \in 1..Len(chunks) :
                  /\ all_chunks'[i].id = chunks[k].id
                  /\ all_chunks'[i].content = chunks[k].content
        /\ \A i \in 1..Len(relevant_chunks') :
              \E k \in 1..Len(all_chunks') : relevant_chunks'[i] = all_chunks'[k]
        /\ queries' = queries

\* C23 as stated: no step modifies or removes an entry of the log, the log
\* only grows by appended entries, and retrieval does not read it.
C23_Original ==
    /\ [][LogExtended]_vars
    /\ [][RetrievalReadsChunksOnly]_vars

\* C23: a step leaves the entries of the log as they are and appends at
\* most one, or it removes all of them at once; the steps that remove them
\* are those of clear_all_data and delete_query_history, which no upload and
\* no query takes part in; retrieval does not read the log.
C23_AppendOrBulkDelete ==
    /\ [][(LogExtended /\ Len(queries') <= Len(queries) + 1) \/ queries' = << >>]_vars
    /\ [][~LogExtended =>
             /\ (files' = << >> /\ chunks' = << >>) \/ UNCHANGED << files, chunks >>
             /\ UNCHANGED << sequence, ing, queryVars >>]_vars
    /\ [][RetrievalReadsChunksOnly]_vars

\* after a bulk clear removed the record of a file, two queries were
\* logged one after the other
C23_Witness ==
    /\ sequence.files > Len(files)
    /\ Len(queries) = 2
    /\ queries[1] # queries[2]

\* a word of the query occurs in the lower-cased text of a stored content
Matches(query, content) ==
    \E w \in WordsOf(query) : OccursIn(w, Lower(DerivedText(content)))

\* C24: a retrieval step enumerates every row of table chunks whose file
\* has a record, whether or not the record is marked processed, and (the
\* rows being fewer than the limit) returns every one of them that a word
\* of the query occurs in.
C24_RanksUnprocessed ==
    [][(pc = "RETRIEVE" /\ pc' # "RETRIEVE" /\ Len(chunks) <= limit) =>
          \A k \in 1..Len(chunks) :
              RecordsOf(files, chunks[k].file_id) # {} =>
                  /\ \E i \in 1..Len(all_chunks') :
                        /\ all_chunks'[i].id = chunks[k].id
                        /\ all_chunks'[i].content = chunks[k].content
                  /\ Matches(user_query, chunks[k].content) =>
                        \E i \in 1..Len(relevant_chunks') :
                            relevant_chunks'[i].id = chunks[k].id]_vars

\* a query returned the answer of the backend from the first chunk of a
\* file that is still being stored and is not marked processed
C24_Witness ==
    /\ pc = "RETURNED"
    /\ result.val = sAns
    /\ ing[1].pc = "store"
    /\ ing[1].pending # << >>
    /\ Len(relevant_chunks) = 1
    /\ relevant_chunks[1].file_id = ing[1].file_id
    /\ RecordsOf(files, ing[1].file_id) # {}
    /\ ~IsProcessed(files, ing[1].file_id)

\* C25 as stated: the file_id of every row of table chunks is the id of a
\* record of table files, and when a call returns success the rows
\* get_all_chunks returns for its file are as many as the chunks it counted,
\* each with the filename of the file's record.
C25_Original ==
    /\ [](\A k \in 1..Len(chunks) : RecordsOf(files, chunks[k].file_id) # {})
    /\ [][\A c \in Callers :
             (ing[c].pc = "store" /\ ing'[c].pc = "idle" /\ ing'[c].ret = "success") =>
                LET got  == GetAllChunks(files', chunks')
                    mine == {i \in 1..Len(got) : got[i].file_id = ing'[c].file_id}
                IN  /\ Cardinality(mine) = ing'[c].chunks_count
                    /\ \A i \in mine : \A f \in RecordsOf(files', ing'[c].file_id) :
                          got[i].filename = files'[f].filename]_vars

(***************************************************************************)
(* Properties of query_with_images (ImagesSpec)                            *)
(***************************************************************************)

\* what query returns for the query on the store when it returns without
\* reaching the backend: the message of the handler of lines 163-167 when
\* the ranker raises, the no-information message when nothing matches
QueryReturnsEarly(query) ==
    LET r == GetRelevantChunks(GetAllChunks(files, chunks), query, QueryLimit)
    IN  IF ~r.ok THEN CaughtOuter(r.val)
        ELSE IF IsNoMatch(r.val) THEN Returned(NoInfoMessage)
        ELSE NoResult

\* C26 as stated: query_with_images does not take its image branch, and it
\* returns what query returns: it either goes on as query does, from the
\* start of query with the same user query, or returns at once what query
\* returns at once on the same store.
C26_Original ==
    /\ [](path # << "IMAGES", "VISION" >>)
    /\ [][pc = "IMAGES" =>
             \/ /\ pc' = "RETRIEVE"
                /\ path' = << "START" >>
                /\ user_query' = user_query
                /\ limit' = QueryLimit
                /\ result' = NoResult
                /\ backend_calls' = << >>
             \/ /\ pc' = "RETURNED"
                /\ result' = QueryReturnsEarly(user_query)]_vars

(***************************************************************************)
(* Properties of the offsets of _split_text (SplitSpec)                    *)
(***************************************************************************)

\* the offsets of the chunks emitted so far
Offsets == [i \in 1..Len(seg.chunks) |-> seg.chunks[i].metadata]

\* start_pos lies in the normalised text, before end_pos and after the
\* start_pos of the chunk before, and the two are at most chunk_size apart
OffsetsOrdered(i) ==
    /\ 0 <= Offsets[i].start_pos
    /\ Offsets[i].start_pos < Offsets[i].end_pos
    /\ Offsets[i].start_pos < Len(seg.text)
    /\ Offsets[i].end_pos - Offsets[i].start_pos <= seg.chunk_size
    /\ i > 1 => Offsets[i - 1].start_pos < Offsets[i].start_pos

\* C27 as stated (for chunk_size >= 1): the offsets of every emitted chunk
\* are ordered and end_pos is at most the length of the normalised text.
C27_Original ==
    seg.chunk_size >= 1 =>
        \A i \in 1..Len(seg.chunks) :
            OffsetsOrdered(i) /\ Offsets[i].end_pos <= Len(seg.text)

\* C27, amended: for chunk_size >= 0 the offsets of every emitted chunk are
\* ordered; end_pos is at most the length of the normalised text when the
\* window of the chunk ends before the end of the text, and is
\* start_pos + chunk_size, at or beyond the end of the text, when it does
\* not; the content is the text between start_pos and end_pos (or the end
\* of the text), stripped.
C27_OffsetsWithinWindow ==
    seg.chunk_size >= 0 =>
        \A i \in 1..Len(seg.chunks) :
            /\ OffsetsOrdered(i)
            /\ IF Offsets[i].start_pos + seg.chunk_size < Len(seg.text)
               THEN Offsets[i].end_pos <= Len(seg.text)
               ELSE Offsets[i].end_pos = Offsets[i].start_pos + seg.chunk_size
            /\ seg.chunks[i].content =
                  Strip(SubSeq(seg.text, Offsets[i].start_pos + 1,
                               IF Offsets[i].end_pos < Len(seg.text)
                               THEN Offsets[i].end_pos ELSE Len(seg.text)))

\* a call returned two chunks: the first was cut inside the text, the
\* second has its end_pos beyond the end of the text
C27_Witness ==
    /\ seg.pc = "returned"
    /\ seg.chunk_size >= 1
    /\ Len(seg.ret) = 2
    /\ seg.ret[1].metadata.end_pos < Len(seg.text)
    /\ seg.ret[2].metadata.end_pos > Len(seg.text)
    /\ seg.ret[2].metadata.start_pos > seg.ret[1].metadata.start_pos
====
